---- MODULE Spec2Model ----
(***************************************************************************)
(* Model of the home automation helper (FastAPI variant, src/app):         *)
(*   - the Boggle grid generator, app/games/boggle.py                      *)
(*   - the POST /games/boggle handler and its delayed end-grid task,       *)
(*     app/main.py                                                         *)
(* SpecGen runs the generator line by line; Spec runs the HTTP handler and *)
(* its background task with the generator as one call; FairSpec is Spec    *)
(* under the fairness of the event loop; SpecPatched runs the generator    *)
(* over an edited dice table; SpecText runs POST /message, the two quote   *)
(* endpoints and the quote lookup of app/sayings/sayings.py.               *)
(***************************************************************************)
EXTENDS Integers, Sequences, FiniteSets, TLC

(***************************************************************************)
(* Bounds of the model.                                                    *)
(***************************************************************************)
\* seeds of the process-wide random state: 1..MaxSeed
MaxSeed == 6
\* generator calls in one run of SpecGen
MaxCalls == 2
\* game-start requests in one run of Spec
MaxReq == 2
\* the seed of the random state in Spec
AppSeed == 1
\* seconds that pass in one step of the clock of Spec
TickStep == 100
\* text requests (POST /message, GET /sfw_quote, GET /nsfw_quote) in one run
\* of SpecText
MaxText == 2
\* send_array / send_message calls made on the connector
MaxSend == 2

(***************************************************************************)
(* app/games/boggle.py: constants.                                         *)
(***************************************************************************)
LETTER_PLACEHOLDER == 1
BOUNDARY_START == 66
BOUNDARY_END == 63
EMPTY_CELL == 0
ASCII_LOWERCASE_OFFSET == 96

BOGGLE_DICE_4x4 ==
  << <<"A","E","A","N","E","G">>, <<"A","H","S","P","C","O">>, <<"A","B","B","J","O","O">>,
     <<"A","F","F","K","P","S">>, <<"A","O","O","T","T","W">>, <<"C","I","M","O","T","U">>,
     <<"D","E","I","L","R","X">>, <<"D","E","L","R","V","Y">>, <<"D","I","S","T","T","Y">>,
     <<"E","E","G","H","N","W">>, <<"E","E","I","N","S","U">>, <<"E","H","R","T","V","W">>,
     <<"E","I","O","S","S","T">>, <<"E","L","R","T","T","Y">>, <<"H","I","M","N","U","T">>,
     <<"H","L","N","N","R","Z">> >>

BOGGLE_DICE_5x5 ==
  << <<"Q","B","Z","J","X","K">>, <<"H","H","L","R","D","C">>, <<"T","E","L","P","C","I">>,
     <<"T","T","O","T","E","M">>, <<"A","E","A","E","E","E">>, <<"T","O","U","O","T","C">>,
     <<"N","H","D","T","H","C">>, <<"S","S","N","S","E","U">>, <<"S","C","T","I","E","P">>,
     <<"Y","I","F","P","S","R">>, <<"O","V","W","R","G","R">>, <<"L","H","N","R","O","D">>,
     <<"R","I","Y","P","R","H">>, <<"E","A","N","D","N","N">>, <<"E","E","E","E","M","A">>,
     <<"A","A","A","F","S","R">>, <<"A","F","A","I","S","R">>, <<"D","O","R","D","L","N">>,
     <<"M","N","N","E","A","G">>, <<"I","T","I","T","I","E">>, <<"A","U","M","E","E","G">>,
     <<"Y","I","F","A","S","R">>, <<"C","C","W","N","S","T">>, <<"U","O","T","O","W","N">>,
     <<"E","T","I","L","I","C">> >>

BEGIN_ROW_4x4 == <<2,0,0,0,0,0,0,0,66,66,66,66,66,66,0,0,0,0,29,48,0,27>>

MID_ROWS_TEMPLATE_4x4 ==
  << <<15,20,0,0,0,0,0,0,66, LETTER_PLACEHOLDER, LETTER_PLACEHOLDER, LETTER_PLACEHOLDER, LETTER_PLACEHOLDER, 66,0,0,0,0,30,48,0,27>>,
     <<7,9,0,0,0,0,0,0,66, LETTER_PLACEHOLDER, LETTER_PLACEHOLDER, LETTER_PLACEHOLDER, LETTER_PLACEHOLDER, 66,0,0,0,0,31,48,0,28>>,
     <<7,13,0,0,0,0,0,0,66, LETTER_PLACEHOLDER, LETTER_PLACEHOLDER, LETTER_PLACEHOLDER, LETTER_PLACEHOLDER, 66,0,0,0,0,32,48,0,29>>,
     <<12,5,0,0,0,0,0,0,66, LETTER_PLACEHOLDER, LETTER_PLACEHOLDER, LETTER_PLACEHOLDER, LETTER_PLACEHOLDER, 66,0,0,0,0,33,48,0,31>> >>

END_ROW_4x4 == <<5,0,0,0,0,0,0,0,66,66,66,66,66,66,0,0,0,0,34,48,27,27>>

MID_ROWS_TEMPLATE_5x5 ==
  << <<2,0,0,0,0,0,0,66, LETTER_PLACEHOLDER, LETTER_PLACEHOLDER, LETTER_PLACEHOLDER, LETTER_PLACEHOLDER, LETTER_PLACEHOLDER, 66,0,0,0,0,29,48,0,27>>,
     <<15,20,0,0,0,0,0,66, LETTER_PLACEHOLDER, LETTER_PLACEHOLDER, LETTER_PLACEHOLDER, LETTER_PLACEHOLDER, LETTER_PLACEHOLDER, 66,0,0,0,0,30,48,0,27>>,
     <<7,9,0,0,0,0,0,66, LETTER_PLACEHOLDER, LETTER_PLACEHOLDER, LETTER_PLACEHOLDER, LETTER_PLACEHOLDER, LETTER_PLACEHOLDER, 66,0,0,0,0,31,48,0,28>>,
     <<7,13,0,0,0,0,0,66, LETTER_PLACEHOLDER, LETTER_PLACEHOLDER, LETTER_PLACEHOLDER, LETTER_PLACEHOLDER, LETTER_PLACEHOLDER, 66,0,0,0,0,32,48,0,29>>,
     <<12,5,0,0,0,0,0,66, LETTER_PLACEHOLDER, LETTER_PLACEHOLDER, LETTER_PLACEHOLDER, LETTER_PLACEHOLDER, LETTER_PLACEHOLDER, 66,0,0,0,0,33,48,0,31>> >>

END_ROW_5x5 == <<5,0,0,0,0,0,0,66,66,66,66,66,66,66,0,0,0,0,34,48,27,27>>

\* Python's None
None == "None"

\* "begin_row": None for size 5
BOGGLE_CONFIG ==
  [s \in {4, 5} |->
     IF s = 4
       THEN [dice |-> BOGGLE_DICE_4x4, begin_row |-> BEGIN_ROW_4x4,
             mid_rows |-> MID_ROWS_TEMPLATE_4x4, end_row |-> END_ROW_4x4]
       ELSE [dice |-> BOGGLE_DICE_5x5, begin_row |-> None,
             mid_rows |-> MID_ROWS_TEMPLATE_5x5, end_row |-> END_ROW_5x5]]

(***************************************************************************)
(* The random module.  Its state is one process-wide generator; every draw *)
(* advances it.  The stream is a Lehmer generator, the seed is the input.  *)
(***************************************************************************)
\* the generator state after one draw
NextRand(s) == (s * 75) % 65537

\* random._randbelow(n) on state s: the value drawn, in 0..n-1
Randbelow(s, n) == NextRand(s) % n

\* random.choice(seq) on state s: seq[_randbelow(len(seq))], 1-based here
Choice(seq, s) == seq[Randbelow(s, Len(seq)) + 1]

\* x with the elements at (1-based) positions i and j exchanged
Swap(x, i, j) == [x EXCEPT ![i] = x[j], ![j] = x[i]]

\* random.shuffle(x): for i in reversed(range(1, len(x))): j = randbelow(i+1);
\* x[i], x[j] = x[j], x[i].  Here i is the 1-based index of the upper element.
RECURSIVE ShuffleFrom(_, _, _)
ShuffleFrom(x, i, s) ==
  IF i < 2 THEN [list |-> x, rng |-> s]
  ELSE ShuffleFrom(Swap(x, i, Randbelow(s, i) + 1), i - 1, NextRand(s))

Shuffle(x, s) == ShuffleFrom(x, Len(x), s)

(***************************************************************************)
(* str.lower and ord on the letters of the dice.                           *)
(***************************************************************************)
UpperCase == <<"A","B","C","D","E","F","G","H","I","J","K","L","M",
               "N","O","P","Q","R","S","T","U","V","W","X","Y","Z">>
LowerCase == <<"a","b","c","d","e","f","g","h","i","j","k","l","m",
               "n","o","p","q","r","s","t","u","v","w","x","y","z">>

IndexIn(seq, ch) == CHOOSE k \in 1..Len(seq) : seq[k] = ch

Lower(ch) ==
  IF \E k \in 1..Len(UpperCase) : UpperCase[k] = ch
    THEN LowerCase[IndexIn(UpperCase, ch)]
    ELSE ch

\* ord('a') = 97, ord('A') = 65
Ord(ch) ==
  IF \E k \in 1..Len(LowerCase) : LowerCase[k] = ch
    THEN 96 + IndexIn(LowerCase, ch)
    ELSE 64 + IndexIn(UpperCase, ch)

\* a conversion that leaves out lower(): ord('A') - 96 and so on
LetterNumberWithoutLower(letter) == Ord(letter) - ASCII_LOWERCASE_OFFSET

\* ord(letter.lower()) - ASCII_LOWERCASE_OFFSET
LetterNumber(letter) == Ord(Lower(letter)) - ASCII_LOWERCASE_OFFSET

(***************************************************************************)
(* generate_boggle_grids, piece by piece.                                  *)
(***************************************************************************)
\* letters = [choice(die) for die in shuffled_dice]: one draw per die, in order
RECURSIVE RollFrom(_, _, _, _)
RollFrom(dice, k, acc, s) ==
  IF k > Len(dice) THEN [list |-> acc, rng |-> s]
  ELSE RollFrom(dice, k + 1, Append(acc, Choice(dice[k], s)), NextRand(s))

\* a roll that throws the first die once for every die
RollFirstDieOnly(dice, s) == RollFrom([k \in 1..Len(dice) |-> dice[1]], 1, <<>>, s)

Roll(dice, s) == RollFrom(dice, 1, <<>>, s)

\* letter_numbers = [ord(letter.lower()) - 96 for letter in letters]
LetterNumbers(letters) == [k \in 1..Len(letters) |-> LetterNumber(letters[k])]

\* a remove that drops every element equal to v (a filter instead of list.remove)
RECURSIVE RemoveEveryEqual(_, _)
RemoveEveryEqual(seq, v) ==
  IF seq = <<>> THEN <<>>
  ELSE IF Head(seq) = v THEN RemoveEveryEqual(Tail(seq), v)
       ELSE <<Head(seq)>> \o RemoveEveryEqual(Tail(seq), v)

\* list.remove(v): drops the first element equal to v
RemoveFirst(seq, v) ==
  LET k == CHOOSE j \in 1..Len(seq) : seq[j] = v /\ \A h \in 1..(j - 1) : seq[h] # v
  IN  [j \in 1..(Len(seq) - 1) |-> IF j < k THEN seq[j] ELSE seq[j + 1]]

\* the loop state of "Populate the Mid Rows Template": the rows being filled,
\* the pool, the random state, the cell the loops stand at (1-based) and the
\* exception raised, if any
PopState(rows, pool, s, r, c, exc) ==
  [populated_mid_rows |-> rows, available_numbers |-> pool, rng |-> s,
   row_index |-> r, col_index |-> c, raised |-> exc]

\* the cell after (r, c) in row-major order
NextCell(rows, r, c) ==
  IF c < Len(rows[r]) THEN [row_index |-> r, col_index |-> c + 1]
  ELSE [row_index |-> r + 1, col_index |-> 1]

\* both loops have run to their end
PopulateFinished(p) == p.row_index > Len(p.populated_mid_rows)

\* an inner loop body that places the chosen number but consumes the head of
\* the pool (pop(0) instead of remove(chosen_number))
PopulateCellPopsHead(p) ==
  LET r == p.row_index
      c == p.col_index
      nxt == NextCell(p.populated_mid_rows, r, c)
  IN  IF p.populated_mid_rows[r][c] = LETTER_PLACEHOLDER
        THEN IF p.available_numbers = <<>>
               THEN [p EXCEPT !.raised = "RuntimeError"]
               ELSE [p EXCEPT !.populated_mid_rows[r][c] = Choice(p.available_numbers, p.rng),
                              !.available_numbers = Tail(@),
                              !.rng = NextRand(@),
                              !.row_index = nxt.row_index,
                              !.col_index = nxt.col_index]
        ELSE [p EXCEPT !.row_index = nxt.row_index, !.col_index = nxt.col_index]

\* one iteration of the inner loop body at cell (row_index, col_index)
PopulateCell(p) ==
  LET r == p.row_index
      c == p.col_index
      nxt == NextCell(p.populated_mid_rows, r, c)
  IN  IF p.populated_mid_rows[r][c] = LETTER_PLACEHOLDER
        THEN IF p.available_numbers = <<>>
               THEN [p EXCEPT !.raised = "RuntimeError"]
               ELSE LET chosen_number == Choice(p.available_numbers, p.rng)
                    IN  [p EXCEPT !.populated_mid_rows[r][c] = chosen_number,
                                  !.available_numbers = RemoveFirst(@, chosen_number),
                                  !.rng = NextRand(@),
                                  !.row_index = nxt.row_index,
                                  !.col_index = nxt.col_index]
        ELSE [p EXCEPT !.row_index = nxt.row_index, !.col_index = nxt.col_index]

\* the two nested loops, run until they end or raise
RECURSIVE Populate(_)
Populate(p) ==
  IF PopulateFinished(p) \/ p.raised # None THEN p ELSE Populate(PopulateCell(p))

\* an assembly that forgets to append the end row
AssembleWithoutEndRow(config, populated_mid_rows) ==
  (IF config.begin_row # None /\ config.begin_row # <<>>
     THEN <<config.begin_row>> ELSE <<>>)
  \o populated_mid_rows

\* an assembly that appends the begin row after the mid rows
AssembleBeginRowAfterMidRows(config, populated_mid_rows) ==
  populated_mid_rows
  \o (IF config.begin_row # None /\ config.begin_row # <<>>
       THEN <<config.begin_row>> ELSE <<>>)
  \o <<config.end_row>>

\* "Assemble the Start Grid": optional begin row, populated mid rows, end row
AssembleStartGrid(config, populated_mid_rows) ==
  (IF config.begin_row # None /\ config.begin_row # <<>>
     THEN <<config.begin_row>> ELSE <<>>)
  \o populated_mid_rows \o <<config.end_row>>

\* the inner loop of "Create the End Grid" on one row, from column c on
RECURSIVE EndRowFrom(_, _)
EndRowFrom(row, c) ==
  IF c > Len(row) THEN row
  ELSE EndRowFrom(IF row[c] = BOUNDARY_START THEN [row EXCEPT ![c] = BOUNDARY_END]
                                             ELSE row, c + 1)

\* an end grid whose loop rebinds the loop variable and writes nothing back
MakeEndGridWritesNothing(start) == start

\* an end grid whose inner loop stops at the first boundary cell of each row
MakeEndGridFirstOnly(start) ==
  [r \in 1..Len(start) |->
     IF \E c \in 1..Len(start[r]) : start[r][c] = BOUNDARY_START
       THEN LET c == CHOOSE k \in 1..Len(start[r]) :
                       /\ start[r][k] = BOUNDARY_START
                       /\ \A h \in 1..(k - 1) : start[r][h] # BOUNDARY_START
            IN  [start[r] EXCEPT ![c] = BOUNDARY_END]
       ELSE start[r]]

\* "Create the End Grid": a deep copy of the start grid, then every row scanned
MakeEndGrid(start) == [r \in 1..Len(start) |-> EndRowFrom(start[r], 1)]

\* list(d.keys()) of a dict whose keys were inserted in ascending order
RECURSIVE KeysFrom(_, _)
KeysFrom(keys, acc) ==
  IF keys = {} THEN acc
  ELSE LET k == CHOOSE x \in keys : \A y \in keys : x <= y
       IN  KeysFrom(keys \ {k}, Append(acc, k))

Keys(d) == KeysFrom(DOMAIN d, <<>>)

\* the argument of the ValueError of line 94
UnsupportedSizeMessage(cfgs, sz) ==
  <<"Unsupported Boggle size: ", sz, ". Supported sizes are ", Keys(cfgs)>>

\* the argument of the RuntimeError of line 125
MismatchMessage == <<"Mismatch between dice count and grid placeholders.">>

\* a lookup that falls back to the 4x4 configuration for an unknown size
RequestedConfigDefaults(cfgs, sz) ==
  IF sz \in DOMAIN cfgs THEN [found |-> TRUE, config |-> cfgs[sz]]
  ELSE [found |-> TRUE, config |-> cfgs[4]]

\* lines 93-96: the size check and the lookup config = BOGGLE_CONFIG[size];
\* found is FALSE where line 94 raises
RequestedConfig(cfgs, sz) ==
  IF sz \in DOMAIN cfgs THEN [found |-> TRUE, config |-> cfgs[sz]]
  ELSE [found |-> FALSE, config |-> None]

\* lines 102-118: shuffle a copy of the dice, roll, convert, copy the template
RollDice(config, s) ==
  LET shuffled == Shuffle(config.dice, s)
      rolled == Roll(shuffled.list, shuffled.rng)
  IN  [shuffled_dice |-> shuffled.list,
       letter_numbers |-> LetterNumbers(rolled.list),
       rng |-> rolled.rng]

\* generate_boggle_grids(size) on random state s, as one call
GenerateBoggleGrids(size, s) ==
  IF size \notin DOMAIN BOGGLE_CONFIG
    THEN [raised |-> "ValueError", start_grid |-> <<>>, end_grid |-> <<>>, rng |-> s]
    ELSE LET config == BOGGLE_CONFIG[size]
             rolled == RollDice(config, s)
             p == Populate(PopState(config.mid_rows, rolled.letter_numbers,
                                    rolled.rng, 1, 1, None))
             start == AssembleStartGrid(config, p.populated_mid_rows)
         IN  IF p.raised # None
               THEN [raised |-> p.raised, start_grid |-> <<>>, end_grid |-> <<>>,
                     rng |-> p.rng]
               ELSE [raised |-> None, start_grid |-> start,
                     end_grid |-> MakeEndGrid(start), rng |-> p.rng]

(***************************************************************************)
(* Which list object is which.  The rows of the templates and of the grids *)
(* are Python lists: two names for one list see each other's writes.  An   *)
(* object is named by who made it (the module or the n-th call), for what, *)
(* and its place there: <<owner, n, what, k>>.                             *)
(***************************************************************************)
\* the lists the module makes for a size, config being BOGGLE_CONFIG[sz]: the
\* dice, the begin row, the mid rows, the end row
ModuleIds(config, sz) ==
  [dice |-> <<"module", sz, "dice", 0>>,
   begin_row |-> <<"module", sz, "begin_row", 0>>,
   mid_rows |-> [k \in 1..Len(config.mid_rows) |-> <<"module", sz, "mid_rows", k>>],
   end_row |-> <<"module", sz, "end_row", 0>>]

\* line 104, dice_set[:]: a new list of the same dice
SliceCopy(id, n) == <<"call", n, "shuffled_dice", 0>>

\* a copy.deepcopy that hands back the lists it was given
DeepCopyReturnsArgument(row_ids, n, what) == row_ids

\* lines 118, 135, 138, 142, copy.deepcopy: new lists, one for each row
DeepCopy(row_ids, n, what) ==
  [k \in 1..Len(row_ids) |-> <<"call", n, what, k>>]

\* rows, whose lists are row_ids, after the lists src_ids have come to hold
\* src_rows: a row that is one of those lists holds what was written to it
Sync(rows, row_ids, src_rows, src_ids) ==
  [k \in 1..Len(rows) |->
     IF \E h \in 1..Len(src_ids) : src_ids[h] = row_ids[k]
       THEN src_rows[CHOOSE h \in 1..Len(src_ids) : src_ids[h] = row_ids[k]]
       ELSE rows[k]]

\* the module's dict after those writes
SyncConfig(cfgs, src_rows, src_ids) ==
  [sz \in DOMAIN cfgs |->
     [cfgs[sz] EXCEPT
        !.begin_row = IF @ = None THEN @
                      ELSE Sync(<<@>>, <<ModuleIds(cfgs[sz], sz).begin_row>>,
                                src_rows, src_ids)[1],
        !.mid_rows = Sync(@, ModuleIds(cfgs[sz], sz).mid_rows, src_rows, src_ids),
        !.end_row = Sync(<<@>>, <<ModuleIds(cfgs[sz], sz).end_row>>, src_rows, src_ids)[1]]]

\* the grids earlier calls returned, after those writes
SyncResults(rs, src_rows, src_ids) ==
  [k \in 1..Len(rs) |->
     [rs[k] EXCEPT
        !.start_grid = Sync(@, rs[k].start_ids, src_rows, src_ids),
        !.end_grid = Sync(@, rs[k].end_ids, src_rows, src_ids)]]

(***************************************************************************)
(* State.                                                                  *)
(***************************************************************************)
VARIABLES
  rng,                 \* the state of the random module
  boggle_config,       \* the module's BOGGLE_CONFIG dict
  \* one run of generate_boggle_grids (SpecGen)
  gpc,                 \* where the call stands
  ncalls,              \* calls made so far
  size,                \* its argument
  shuffled_dice,
  letter_numbers,
  available_numbers,
  populated_mid_rows,
  row_index,
  col_index,
  start_grid,
  end_grid,
  raised,              \* the exception the call raised, or None
  raised_args,         \* the arguments of that exception
  ids,                 \* which lists its shuffled_dice and the rows of its
                       \* populated_mid_rows, start_grid and end_grid are
  results,             \* the grids earlier calls returned, as their callers
                       \* hold them
  \* the application (Spec)
  req,                 \* the POST /games/boggle requests, one record each
  error_log,           \* the records written through log.error, by request
  \* the text endpoints and the quote lookup (SpecText)
  settings,            \* app.config.Settings, as far as the sayings read it
  text_req,            \* the text request being served
  db,                  \* the quote function call of that request
  ntext,               \* text requests received so far
  \* the Vestaboard connector (SpecConn)
  connector,           \* the VestaboardConnector: its cache and its lock
  send,                \* the send_array / send_message calls, one record each
  http                 \* what went over the HTTP client, in order

genVars == <<boggle_config, gpc, ncalls, size, shuffled_dice, letter_numbers,
             available_numbers, populated_mid_rows, row_index, col_index,
             start_grid, end_grid, raised, raised_args, ids, results>>

appVars == <<req, error_log>>

textVars == <<settings, text_req, db, ntext>>

connVars == <<connector, send, http>>

vars == <<rng, genVars, appVars, textVars, connVars>>

Seeds == 1..MaxSeed

\* the sizes a caller passes to the generator
SizeInputs == {0, 3, 4, 5, 6}

GenLocalsCleared ==
  /\ size = 0
  /\ shuffled_dice = <<>>
  /\ letter_numbers = <<>>
  /\ available_numbers = <<>>
  /\ populated_mid_rows = <<>>
  /\ row_index = 0
  /\ col_index = 0
  /\ start_grid = <<>>
  /\ end_grid = <<>>
  /\ raised = None
  /\ raised_args = <<>>
  /\ ids = [shuffled_dice |-> <<>>, populated_mid_rows |-> <<>>,
            start_grid |-> <<>>, end_grid |-> <<>>]

GenInit ==
  /\ gpc = "idle"
  /\ ncalls = 0
  /\ results = <<>>
  /\ GenLocalsCleared

(***************************************************************************)
(* app/main.py: the state of the application.                              *)
(***************************************************************************)
Reqs == 1..MaxReq

\* a request nobody has sent yet
NewRequest ==
  [pc |-> "new",          \* new, await_start_send, responded, sleeping,
                          \* await_end_send, done
   size |-> 0,            \* item.size
   start_grid |-> <<>>,
   end_grid |-> <<>>,
   status |-> 0,          \* the HTTP status answered, 0 while there is none
   detail |-> <<>>,       \* the message or the detail of the answer
   tasks |-> <<>>,        \* background_tasks of this request
   slept |-> 0,           \* how long its task had slept when its sleep was over
   trace |-> <<>>]        \* what the request has done, in order

AppInit ==
  /\ req = [i \in Reqs |-> NewRequest]
  /\ error_log = [i \in Reqs |-> <<>>]

(***************************************************************************)
(* app/config.py, app/main.py, app/sayings/sayings.py: the state of the    *)
(* text endpoints.                                                         *)
(***************************************************************************)
\* Settings() with nothing set in the environment
DefaultSettings ==
  [saying_db_user |-> None, saying_db_pass |-> None, saying_db_host |-> None,
   saying_db_port |-> "3306", saying_db_name |-> None, saying_db_enable |-> "0"]

\* the settings the text endpoints are run under: the sayings database off,
\* on, or set to a word other than "1"; its user given or left out
SettingsInputs ==
  {[DefaultSettings EXCEPT !.saying_db_enable = e, !.saying_db_user = u,
                           !.saying_db_pass = "pass", !.saying_db_host = "host",
                           !.saying_db_name = "name"] :
     e \in {"0", "1", "true"}, u \in {None, "user"}}

\* no text request is being served
NoTextRequest ==
  [pc |-> "idle",          \* idle, await_quote, await_send, responded
   endpoint |-> None,      \* "/message", "/sfw_quote", "/nsfw_quote"
   message |-> None,       \* item.message
   data |-> None,          \* what the quote function returned
   sent |-> <<>>,          \* the arguments of the send_message calls, in order
   awaited |-> <<>>,       \* how each await of the handler ended, in order
   status |-> 0,           \* the HTTP status answered, 0 while there is none
   detail |-> <<>>,        \* the message or the detail of the answer
   log |-> <<>>]           \* the records the handler logged

\* no quote function is running
NoQuoteCall ==
  [pc |-> "idle",          \* idle, connect, cursor, execute, fetch, close_cur,
                           \* close_cnx, returned, raised
   table |-> None,         \* table_name
   cnx |-> None,           \* the connection, once obtained
   cur |-> None,           \* the cursor, once opened
   get_conn_calls |-> 0,   \* calls of _get_db_connection
   connects |-> 0,         \* calls of mysql.connector.connect
   cur_closes |-> 0,       \* calls of cur.close
   cnx_closes |-> 0,       \* calls of cnx.close
   is_connected |-> None,  \* what cnx.is_connected() answered in the finally
   errors |-> <<>>,        \* the database calls that raised, in order
   result |-> None,        \* the value returned
   raised |-> None]        \* the exception that left the function

TextInit ==
  /\ text_req = NoTextRequest
  /\ db = NoQuoteCall
  /\ ntext = 0

(***************************************************************************)
(* app/connectors/vestaboard.py: the state of the connector.               *)
(***************************************************************************)
Sends == 1..MaxSend

\* VestaboardConnector(settings) after __init__ (lines 63-64): nothing cached,
\* the lock free.  An asyncio.Lock is its flag and the queue of the calls
\* waiting for it.
\* A call nobody has made yet.
NoSend ==
  [pc |-> "new",           \* new, waiting (for the lock), fetching (awaits the
                           \* GET), posting (awaits the POST), done
   method |-> None,        \* "send_array" or "send_message"
   arg |-> [t |-> "NoneType", v |-> <<>>],   \* characters or text
   string_text |-> <<>>,   \* str(text), character by character
   waited |-> FALSE,       \* the call had to wait for the lock
   sub_id |-> None,        \* what _get_subscription_id returned
   raised |-> None]        \* the exception that left the call

ConnInit ==
  /\ connector = [subscription_id |-> None,
                  sub_id_lock |-> [locked |-> FALSE, waiters |-> <<>>]]
  /\ send = [c \in Sends |-> NoSend]
  /\ http = <<>>

(***************************************************************************)
(* SpecGen: generate_boggle_grids run line by line.                        *)
(***************************************************************************)
\* lines 93-118: the size check, the lookup, the roll and the template copy
GenCall(sz) ==
  /\ gpc = "idle"
  /\ ncalls < MaxCalls
  /\ ncalls' = ncalls + 1
  /\ size' = sz
  /\ LET looked_up == RequestedConfig(boggle_config, sz)
     IN  IF ~looked_up.found
           THEN /\ raised' = "ValueError"
                /\ raised_args' = UnsupportedSizeMessage(boggle_config, sz)
                /\ gpc' = "raised"
                /\ UNCHANGED <<rng, boggle_config, shuffled_dice, letter_numbers,
                               available_numbers, populated_mid_rows, row_index,
                               col_index, ids>>
           ELSE LET rolled == RollDice(looked_up.config, rng)
                    module_ids == ModuleIds(looked_up.config, sz)
                    shuffled_id == SliceCopy(module_ids.dice, ncalls + 1)
                IN  /\ shuffled_dice' = rolled.shuffled_dice
                    \* line 108 shuffles the list shuffled_dice names
                    /\ boggle_config' =
                         IF shuffled_id = module_ids.dice
                           THEN [boggle_config EXCEPT ![sz].dice = rolled.shuffled_dice]
                           ELSE boggle_config
                    /\ ids' = [ids EXCEPT
                                 !.shuffled_dice = shuffled_id,
                                 !.populated_mid_rows =
                                   DeepCopy(module_ids.mid_rows, ncalls + 1,
                                            "populated_mid_rows")]
                    /\ letter_numbers' = rolled.letter_numbers
                    /\ available_numbers' = rolled.letter_numbers
                    /\ populated_mid_rows' = looked_up.config.mid_rows
                    /\ rng' = rolled.rng
                    /\ row_index' = 1
                    /\ col_index' = 1
                    /\ raised' = None
                    /\ raised_args' = <<>>
                    /\ gpc' = "populate"
  /\ UNCHANGED <<start_grid, end_grid, results>>

\* lines 120-129: one iteration of the inner loop
GenPopulateCell ==
  /\ gpc = "populate"
  /\ LET p == PopState(populated_mid_rows, available_numbers, rng,
                       row_index, col_index, raised)
         q == PopulateCell(p)
     IN  /\ ~PopulateFinished(p)
         /\ populated_mid_rows' = q.populated_mid_rows
         /\ available_numbers' = q.available_numbers
         /\ rng' = q.rng
         /\ row_index' = q.row_index
         /\ col_index' = q.col_index
         /\ raised' = q.raised
         /\ raised_args' = IF q.raised # None THEN MismatchMessage ELSE raised_args
         /\ gpc' = IF q.raised # None THEN "raised" ELSE "populate"
         /\ boggle_config' = SyncConfig(boggle_config, q.populated_mid_rows,
                                        ids.populated_mid_rows)
         /\ results' = SyncResults(results, q.populated_mid_rows,
                                   ids.populated_mid_rows)
  /\ UNCHANGED <<ncalls, size, shuffled_dice, letter_numbers, start_grid, end_grid, ids>>

\* lines 131-138: the loops are over, the start grid is assembled
GenAssemble ==
  /\ gpc = "populate"
  /\ PopulateFinished(PopState(populated_mid_rows, available_numbers, rng,
                               row_index, col_index, raised))
  /\ start_grid' = AssembleStartGrid(boggle_config[size], populated_mid_rows)
  /\ ids' = [ids EXCEPT !.start_grid =
               AssembleStartGrid(
                 [begin_row |-> IF boggle_config[size].begin_row = None THEN None
                                ELSE DeepCopy(<<ModuleIds(boggle_config[size], size).begin_row>>,
                                              ncalls, "begin_row")[1],
                  end_row |-> DeepCopy(<<ModuleIds(boggle_config[size], size).end_row>>,
                                       ncalls, "end_row")[1]],
                 ids.populated_mid_rows)]
  /\ gpc' = "assembled"
  /\ UNCHANGED <<rng, boggle_config, ncalls, size, shuffled_dice, letter_numbers,
                 available_numbers, populated_mid_rows, row_index, col_index,
                 end_grid, raised, raised_args, results>>

\* lines 140-149: the end grid is derived and both grids are returned
GenMakeEnd ==
  /\ gpc = "assembled"
  /\ LET end_ids == DeepCopy(ids.start_grid, ncalls, "end_grid")
         end == MakeEndGrid(start_grid)
     IN  /\ end_grid' = end
         /\ ids' = [ids EXCEPT !.end_grid = end_ids]
         /\ start_grid' = Sync(start_grid, ids.start_grid, end, end_ids)
         /\ populated_mid_rows' = Sync(populated_mid_rows, ids.populated_mid_rows,
                                       end, end_ids)
         /\ boggle_config' = SyncConfig(boggle_config, end, end_ids)
         /\ results' = SyncResults(results, end, end_ids)
  /\ gpc' = "returned"
  /\ UNCHANGED <<rng, ncalls, size, shuffled_dice, letter_numbers,
                 available_numbers, row_index, col_index, raised, raised_args>>

\* the call is over (returned or raised): its locals go away
GenFinish ==
  /\ gpc \in {"returned", "raised"}
  /\ gpc' = "idle"
  /\ size' = 0
  /\ shuffled_dice' = <<>>
  /\ letter_numbers' = <<>>
  /\ available_numbers' = <<>>
  /\ populated_mid_rows' = <<>>
  /\ row_index' = 0
  /\ col_index' = 0
  /\ start_grid' = <<>>
  /\ end_grid' = <<>>
  /\ raised' = None
  /\ raised_args' = <<>>
  /\ ids' = [shuffled_dice |-> <<>>, populated_mid_rows |-> <<>>,
             start_grid |-> <<>>, end_grid |-> <<>>]
  /\ results' = IF gpc = "returned"
                  THEN Append(results, [size |-> size,
                                        start_grid |-> start_grid,
                                        end_grid |-> end_grid,
                                        start_ids |-> ids.start_grid,
                                        end_ids |-> ids.end_grid])
                  ELSE results
  /\ UNCHANGED <<rng, boggle_config, ncalls>>

InitGen ==
  /\ rng \in Seeds
  /\ boggle_config = BOGGLE_CONFIG
  /\ GenInit
  /\ AppInit
  /\ settings = DefaultSettings
  /\ TextInit
  /\ ConnInit

NextGen ==
  \/ \E sz \in SizeInputs : GenCall(sz) /\ UNCHANGED <<appVars, textVars, connVars>>
  \/ GenPopulateCell /\ UNCHANGED <<appVars, textVars, connVars>>
  \/ GenAssemble /\ UNCHANGED <<appVars, textVars, connVars>>
  \/ GenMakeEnd /\ UNCHANGED <<appVars, textVars, connVars>>
  \/ GenFinish /\ UNCHANGED <<appVars, textVars, connVars>>

SpecGen == InitGen /\ [][NextGen]_vars

(***************************************************************************)
(* SpecPatched: the generator over an edited BOGGLE_CONFIG, the "config    *)
(* defect" its RuntimeError is there for.                                  *)
(***************************************************************************)
\* BOGGLE_CONFIG with the dice sets of the two sizes exchanged: 25 dice for the
\* 16 placeholders of size 4, 16 dice for the 25 placeholders of size 5
SwappedDiceConfig ==
  [s \in DOMAIN BOGGLE_CONFIG |->
     [BOGGLE_CONFIG[s] EXCEPT !.dice = IF s = 4 THEN BOGGLE_DICE_5x5 ELSE BOGGLE_DICE_4x4]]

\* the tables the generator is run over
PatchedConfigs == {BOGGLE_CONFIG, SwappedDiceConfig}

InitPatched ==
  /\ rng \in Seeds
  /\ boggle_config \in PatchedConfigs
  /\ GenInit
  /\ AppInit
  /\ settings = DefaultSettings
  /\ TextInit
  /\ ConnInit

SpecPatched == InitPatched /\ [][NextGen]_vars

(***************************************************************************)
(* app/connectors/vestaboard.py: the exception classes.                    *)
(***************************************************************************)
\* the direct base class of an exception class
BaseClass(cls) ==
  CASE cls = "VestaboardAuthError" -> "VestaboardError"
    [] cls = "VestaboardInvalidCharsError" -> "VestaboardError"
    [] cls = "VestaboardError" -> "Exception"
    [] cls = "RuntimeError" -> "Exception"
    [] cls = "ValueError" -> "Exception"
    [] cls = "TypeError" -> "Exception"
    [] cls = "HTTPException" -> "Exception"
    [] cls = "ConnectionError" -> "OSError"
    [] cls = "OSError" -> "Exception"
    [] cls = "mysql.connector.Error" -> "Exception"
    [] cls = "HTTPStatusError" -> "HTTPError"
    [] cls = "ConnectError" -> "RequestError"
    [] cls = "RequestError" -> "HTTPError"
    [] cls = "HTTPError" -> "Exception"
    [] cls = "JSONDecodeError" -> "ValueError"
    [] cls = "KeyError" -> "LookupError"
    [] cls = "LookupError" -> "Exception"
    [] cls = "AttributeError" -> "Exception"
    [] OTHER -> None

\* isinstance(exc, cls), exc given by its class
RECURSIVE IsInstance(_, _)
IsInstance(exc, cls) ==
  IF exc = cls THEN TRUE
  ELSE IF BaseClass(exc) = None THEN FALSE
  ELSE IsInstance(BaseClass(exc), cls)

\* how an awaited connector.send_array ends: it returns, or raises one of the
\* classes its documentation and its HTTP client allow
SendOutcomes == {"ok", "VestaboardAuthError", "VestaboardError", "RuntimeError"}

\* how the generator behaves in a handler: as written ("none"), or replaced,
\* as in the handler's tests, by one that returns empty grids or raises an
\* exception of the class named
GenFaults == {"none", "empty", "ValueError", "RuntimeError"}

(***************************************************************************)
(* app/main.py: POST /games/boggle.                                        *)
(***************************************************************************)
\* asyncio.sleep(200): the game duration
GAME_DURATION == 200

Event(ev, arg) == [ev |-> ev, arg |-> arg]

\* the request answered with an HTTPException
Rejected(r, status, detail) ==
  [r EXCEPT !.pc = "done", !.status = status, !.detail = detail,
            !.trace = Append(@, Event("response", status))]

\* bg.generate_boggle_grids as the handler sees it
GeneratorCall(sz, s, fault) ==
  CASE fault \in {"ValueError", "RuntimeError"} ->
         [raised |-> fault, start_grid |-> <<>>, end_grid |-> <<>>, rng |-> s]
    [] fault = "empty" ->
         [raised |-> None, start_grid |-> <<>>, end_grid |-> <<>>, rng |-> s]
    [] OTHER -> GenerateBoggleGrids(sz, s)

\* a size check that lets every size through
InvalidSizeNever(sz) == FALSE

\* line 137: item.size not in (4, 5)
InvalidSize(sz) == sz \notin {4, 5}

\* a check of the grids that never finds one missing
GridsMissingNever(start, end) == FALSE

\* line 143: not start_grid or not end_grid
GridsMissing(start, end) == start = <<>> \/ end = <<>>

\* lines 137-164: the handler up to its first await.  Gives the request and
\* the random state afterwards.
StartBoggleGame(r, sz, s, fault) ==
  IF InvalidSize(sz)
    THEN [req |-> Rejected([r EXCEPT !.size = sz], 400,
                           <<"Invalid Boggle size. Must be 4 or 5.">>),
          rng |-> s]
    ELSE LET g == GeneratorCall(sz, s, fault)
             called == [r EXCEPT !.size = sz,
                                 !.trace = Append(@, Event("generate", sz))]
         IN  IF g.raised # None
               THEN [req |-> Rejected([called EXCEPT !.trace =
                                         Append(@, Event("generate_raised", g.raised))],
                                      500, <<"Error creating game grids">>),
                     rng |-> g.rng]
             ELSE IF GridsMissing(g.start_grid, g.end_grid)
               THEN [req |-> Rejected([called EXCEPT !.trace =
                                         Append(@, Event("generate_empty", "ValueError"))],
                                      500, <<"Error creating game grids">>),
                     rng |-> g.rng]
               ELSE [req |-> [called EXCEPT
                                !.start_grid = g.start_grid,
                                !.end_grid = g.end_grid,
                                !.pc = "await_start_send",
                                !.trace = Append(@, Event("send_array", g.start_grid))],
                     rng |-> g.rng]

\* the handler's success path: lines 165-169
StartGridSent(r, grid_to_send) ==
  [r EXCEPT !.tasks = Append(@, [grid_to_send |-> grid_to_send]),
            !.pc = "responded",
            !.status = 202,
            !.detail = <<"Boggle ", r.size, "x", r.size, " game queued.">>,
            !.trace = @ \o <<Event("send_array_ok", 0),
                             Event("add_task", grid_to_send),
                             Event("response", 202)>>]

\* a handler that answers every Vestaboard error, authentication included, as
\* a bad gateway
StartSendReturnedAllBadGateway(r, outcome) ==
  IF outcome = "ok"
    THEN StartGridSent(r, r.end_grid)
    ELSE LET failed == [r EXCEPT !.trace = Append(@, Event("send_array_raised", outcome))]
         IN  IF IsInstance(outcome, "VestaboardError")
               THEN Rejected(failed, 502, <<"Vestaboard error initiating game: ", outcome>>)
               ELSE Rejected(failed, 500, <<"Error initiating game on board">>)

\* a handler that hands the start grid to the delayed task
StartSendReturnedQueuesStartGrid(r, outcome) ==
  IF outcome = "ok"
    THEN StartGridSent(r, r.start_grid)
    ELSE Rejected([r EXCEPT !.trace = Append(@, Event("send_array_raised", outcome))],
                  500, <<"Error initiating game on board">>)

\* a handler that logs a failed start-grid send and carries on
StartSendReturnedSchedulesAnyway(r, outcome) ==
  IF outcome = "ok"
    THEN StartGridSent(r, r.end_grid)
    ELSE [r EXCEPT !.tasks = Append(@, [grid_to_send |-> r.end_grid]),
                   !.pc = "responded",
                   !.status = 202,
                   !.detail = <<"Boggle ", r.size, "x", r.size, " game queued.">>,
                   !.trace = @ \o <<Event("send_array_raised", outcome),
                                    Event("add_task", r.end_grid),
                                    Event("response", 202)>>]

\* lines 164-179: the await of send_array(start_grid) ends with outcome
StartSendReturned(r, outcome) ==
  IF outcome = "ok"
    THEN StartGridSent(r, r.end_grid)
    ELSE LET failed == [r EXCEPT !.trace = Append(@, Event("send_array_raised", outcome))]
         IN  IF IsInstance(outcome, "VestaboardAuthError") \/ IsInstance(outcome, "VestaboardError")
               THEN Rejected(failed,
                             IF IsInstance(outcome, "VestaboardAuthError") THEN 503 ELSE 502,
                             <<"Vestaboard error initiating game: ", outcome>>)
               ELSE Rejected(failed, 500, <<"Error initiating game on board">>)

\* a sleep that is over at once
SleepOverAtOnce(slept, seconds) == TRUE

\* asyncio.sleep(seconds) is over once that much time has passed
SleepOver(slept, seconds) == slept >= seconds

\* line 153: the response is out, the background task starts and sleeps
TaskStarts(r) ==
  [r EXCEPT !.pc = "sleeping",
            !.slept = 0,
            !.trace = Append(@, Event("sleep", GAME_DURATION))]

\* a task that gives up its send when another game has started meanwhile
TaskWakesUnlessSuperseded(rq, i) ==
  IF \E j \in DOMAIN rq : j # i /\ rq[j].pc \notin {"new", "done"}
    THEN [rq EXCEPT ![i].pc = "done", ![i].tasks = Tail(@),
                    ![i].trace = Append(@, Event("woke", rq[i].slept))]
    ELSE [rq EXCEPT ![i].pc = "await_end_send",
                    ![i].trace = @ \o <<Event("woke", rq[i].slept),
                                        Event("send_array", Head(rq[i].tasks).grid_to_send)>>]

\* a task that reads the end grid from a place shared by all games, where the
\* game started last has put its own
TaskWakesSendsLatestGrid(rq, i) ==
  LET started == {j \in DOMAIN rq : rq[j].tasks # <<>>}
      latest == CHOOSE j \in started : \A h \in started : h <= j
  IN  [rq EXCEPT ![i].pc = "await_end_send",
                 ![i].trace = @ \o <<Event("woke", rq[i].slept),
                                     Event("send_array", Head(rq[latest].tasks).grid_to_send)>>]

\* lines 154-156: the sleep is over, the task calls send_array(grid_to_send)
TaskWakes(rq, i) ==
  [rq EXCEPT ![i].pc = "await_end_send",
             ![i].trace = @ \o <<Event("woke", rq[i].slept),
                                 Event("send_array", Head(rq[i].tasks).grid_to_send)>>]

\* the classes the task's except clause catches
TaskCatchesVestaboardOnly == "VestaboardError"

TaskCatches == "Exception"

\* lines 156-160: the await of send_array(grid_to_send) ends with outcome
EndSendReturned(r, outcome) ==
  LET over == [r EXCEPT !.pc = "done", !.tasks = Tail(@)]
  IN  IF outcome = "ok"
        THEN [over EXCEPT !.trace = Append(@, Event("send_array_ok", 0))]
        ELSE IF IsInstance(outcome, TaskCatches)
          THEN [over EXCEPT !.trace = @ \o <<Event("send_array_raised", outcome),
                                             Event("log_error", outcome)>>]
          ELSE [over EXCEPT !.trace = @ \o <<Event("send_array_raised", outcome),
                                             Event("task_raised", outcome)>>]

(***************************************************************************)
(* Spec: the application.                                                  *)
(***************************************************************************)
\* log.error(msg), also as called by log.exception(msg), while serving request i
Logged(log, i, msg, exc) == [log EXCEPT ![i] = Append(@, [msg |-> msg, exc |-> exc])]

\* a client posts {"size": sz}; the handler runs to its first await
PostBoggle(i, sz, fault) ==
  /\ req[i].pc = "new"
  /\ \A j \in Reqs : j < i => req[j].pc # "new"
  /\ LET h == StartBoggleGame(req[i], sz, rng, fault)
     IN  /\ req' = [req EXCEPT ![i] = h.req]
         /\ rng' = h.rng
         /\ error_log' = IF h.req.status = 500
                           THEN Logged(error_log, i, "Error generating Boggle grids", "Exception")
                           ELSE error_log
  /\ UNCHANGED <<genVars, textVars, connVars>>

\* the start-grid send is over; the handler runs to its end
StartSendDone(i, outcome) ==
  /\ req[i].pc = "await_start_send"
  /\ req' = [req EXCEPT ![i] = StartSendReturned(req[i], outcome)]
  /\ error_log' =
       IF outcome = "ok" THEN error_log
       ELSE IF IsInstance(outcome, "VestaboardError")
         THEN Logged(error_log, i, "Vestaboard error sending start grid", outcome)
         ELSE Logged(error_log, i, "Unexpected error sending Boggle start grid", outcome)
  /\ UNCHANGED <<rng, genVars, textVars, connVars>>

\* the response is sent; the request's background task starts
BackgroundStart(i) ==
  /\ req[i].pc = "responded"
  /\ IF req[i].tasks = <<>>
       THEN req' = [req EXCEPT ![i].pc = "done"]
       ELSE req' = [req EXCEPT ![i] = TaskStarts(req[i])]
  /\ UNCHANGED <<rng, genVars, error_log, textVars, connVars>>

\* the sleep of a task is over
TimerFires(i) ==
  /\ req[i].pc = "sleeping"
  /\ SleepOver(req[i].slept, GAME_DURATION)
  /\ req' = TaskWakes(req, i)
  /\ UNCHANGED <<rng, genVars, error_log, textVars, connVars>>

\* the end-grid send is over
EndSendDone(i, outcome) ==
  /\ req[i].pc = "await_end_send"
  /\ req' = [req EXCEPT ![i] = EndSendReturned(req[i], outcome)]
  /\ error_log' = IF outcome # "ok" /\ IsInstance(outcome, TaskCatches)
                    THEN Logged(error_log, i,
                                "Error sending Boggle end grid in background task", outcome)
                    ELSE error_log
  /\ UNCHANGED <<rng, genVars, textVars, connVars>>

\* time passes for every task that sleeps; a task's time is followed until
\* its sleep is over
Tick ==
  /\ \E i \in Reqs : req[i].pc = "sleeping" /\ ~SleepOver(req[i].slept, GAME_DURATION)
  /\ req' = [i \in Reqs |->
               IF req[i].pc = "sleeping" /\ ~SleepOver(req[i].slept, GAME_DURATION)
                 THEN [req[i] EXCEPT !.slept = @ + TickStep]
                 ELSE req[i]]
  /\ UNCHANGED <<rng, genVars, error_log, textVars, connVars>>

Init ==
  /\ rng = AppSeed
  /\ boggle_config = BOGGLE_CONFIG
  /\ GenInit
  /\ AppInit
  /\ settings = DefaultSettings
  /\ TextInit
  /\ ConnInit

Next ==
  \/ \E i \in Reqs : \E sz \in SizeInputs : \E fault \in GenFaults : PostBoggle(i, sz, fault)
  \/ \E i \in Reqs : \E outcome \in SendOutcomes : StartSendDone(i, outcome)
  \/ \E i \in Reqs : BackgroundStart(i)
  \/ \E i \in Reqs : TimerFires(i)
  \/ \E i \in Reqs : \E outcome \in SendOutcomes : EndSendDone(i, outcome)
  \/ Tick

Spec == Init /\ [][Next]_vars

\* the event loop runs every coroutine that can run, and time passes
FairSpec ==
  /\ Spec
  /\ WF_vars(Tick)
  /\ \A i \in Reqs : WF_vars(BackgroundStart(i))
  /\ \A i \in Reqs : WF_vars(TimerFires(i))

(***************************************************************************)
(* app/sayings/sayings.py: the quote lookup.                               *)
(***************************************************************************)
\* a test of the switch that takes every word but "0" for on
DbEnabledUnlessZero(s) == s.saying_db_enable # "0"

\* lines 104, 114: settings.saying_db_enable != "1" is false
DbEnabled(s) == s.saying_db_enable = "1"

\* how a quote function behaves in a handler: as written ("none"), or replaced,
\* as in the handler's tests, by one that raises an exception of the class named
QuoteFaults == {"none", "ConnectionError", "RuntimeError"}

\* how a call into the database driver ends: it returns, or raises a database error
DbOutcomes == {"ok", "mysql.connector.Error"}

\* how mysql.connector.connect(..., port=int(...)) ends
ConnectOutcomes == DbOutcomes \cup {"ValueError"}

\* how cur.fetchone() ends: a row with a quote, no row, a row holding NULL, or
\* a database error
FetchOutcomes == {"row", "no_row", "null_row", "mysql.connector.Error"}

\* the quote the database holds in a table
QuoteIn(table) == IF table = "sfw_quotes" THEN "A SFW QUOTE" ELSE "A NSFW QUOTE"

\* lines 99-117: GetSingleRandSfwS / GetSingleRandNsfwS up to the call of
\* _get_random_quote_from_db(table, settings)
GetSingleRand(table, s, fault) ==
  IF fault # "none"
    THEN [NoQuoteCall EXCEPT !.table = table, !.pc = "raised", !.raised = fault]
  ELSE IF ~DbEnabled(s)
    THEN [NoQuoteCall EXCEPT !.table = table, !.pc = "returned"]
  ELSE [NoQuoteCall EXCEPT !.table = table, !.pc = "connect"]

\* lines 17-24: all(s is not None for s in required_settings)
ConfigComplete(s) ==
  /\ s.saying_db_user # None
  /\ s.saying_db_pass # None
  /\ s.saying_db_host # None
  /\ s.saying_db_port # None
  /\ s.saying_db_name # None

\* a database call of the lookup raised: the except clause of line 77 (or of
\* lines 40-45) makes the function return None, by way of the finally
DbFailed(d, where, outcome) ==
  [d EXCEPT !.errors = Append(@, <<where, outcome>>), !.result = None,
            !.pc = "close_cur"]

\* lines 56-59 with _get_db_connection, lines 11-45
GetDbConnection(d, s, outcome) ==
  LET called == [d EXCEPT !.get_conn_calls = @ + 1]
  IN  IF ~ConfigComplete(s)
        THEN [called EXCEPT !.result = None, !.pc = "close_cur"]
        ELSE LET tried == [called EXCEPT !.connects = @ + 1]
             IN  IF outcome = "ok"
                   THEN [tried EXCEPT !.cnx = "cnx", !.pc = "cursor"]
                   ELSE DbFailed(tried, "connect", outcome)

\* line 65: cur = cnx.cursor()
OpenCursor(d, outcome) ==
  IF outcome = "ok" THEN [d EXCEPT !.cur = "cur", !.pc = "execute"]
  ELSE DbFailed(d, "cursor", outcome)

\* line 67: cur.execute(q_string)
Execute(d, outcome) ==
  IF outcome = "ok" THEN [d EXCEPT !.pc = "fetch"]
  ELSE DbFailed(d, "execute", outcome)

\* lines 68-75: result = cur.fetchone() and the return of the quote or None
Fetch(d, outcome) ==
  CASE outcome = "row" -> [d EXCEPT !.result = QuoteIn(d.table), !.pc = "close_cur"]
    [] outcome \in {"no_row", "null_row"} -> [d EXCEPT !.result = None, !.pc = "close_cur"]
    [] OTHER -> DbFailed(d, "fetchone", outcome)

\* a cursor that is closed at the end of the try body only, so not after an error
CloseCursorUnlessFailed(d, outcome) ==
  IF d.cur # None /\ d.errors = <<>>
    THEN [d EXCEPT !.cur_closes = @ + 1, !.pc = "close_cnx"]
    ELSE [d EXCEPT !.pc = "close_cnx"]

\* lines 83-88: if cur: cur.close(), an error of which is logged and dropped
CloseCursor(d, outcome) ==
  IF d.cur # None
    THEN [d EXCEPT !.cur_closes = @ + 1, !.pc = "close_cnx"]
    ELSE [d EXCEPT !.pc = "close_cnx"]

\* lines 89-94: if cnx and cnx.is_connected(): cnx.close(), an error of which
\* is logged and dropped; then the function returns
CloseConnection(d, connected, outcome) ==
  IF d.cnx # None
    THEN IF connected
           THEN [d EXCEPT !.is_connected = "True", !.cnx_closes = @ + 1, !.pc = "returned"]
           ELSE [d EXCEPT !.is_connected = "False", !.pc = "returned"]
    ELSE [d EXCEPT !.pc = "returned"]

(***************************************************************************)
(* app/main.py: POST /message, GET /sfw_quote, GET /nsfw_quote.            *)
(***************************************************************************)
\* how an awaited connector.send_message ends
SendMessageOutcomes ==
  {"ok", "VestaboardInvalidCharsError", "VestaboardAuthError", "VestaboardError",
   "RuntimeError"}

\* item.message of the requests posted
MessageInputs == {"", "HI"}

QuoteEndpoints == {"/sfw_quote", "/nsfw_quote"}

\* the arguments of the two endpoints' calls of _get_and_send_quote
TableOf(endpoint) == IF endpoint = "/sfw_quote" THEN "sfw_quotes" ELSE "nsfw_quotes"

SuccessMessage(endpoint) ==
  IF endpoint = "/sfw_quote" THEN "Random SFW quote queued" ELSE "Random NSFW quote queued"

ErrorMessage(endpoint) ==
  IF endpoint = "/sfw_quote" THEN "Error getting SFW quote" ELSE "Error getting NSFW quote"

\* an exception of class cls, and an HTTPException
Exc(cls) == [cls |-> cls, status |-> 0, detail |-> <<>>]

HTTPExc(status, detail) == [cls |-> "HTTPException", status |-> status, detail |-> detail]

\* the request answered
Answered(r, status, detail) ==
  [r EXCEPT !.pc = "responded", !.status = status, !.detail = detail]

\* an await of the handler is over: the call returned or raised outcome
Awaited(r, call, outcome) ==
  [r EXCEPT !.awaited = Append(@, [call |-> call, outcome |-> outcome])]

TextLogged(r, level, msg) == [r EXCEPT !.log = Append(@, [level |-> level, msg |-> msg])]

\* an except clause catches an exception of class cls
Catches(clause, cls) ==
  \E k \in 1..Len(clause.classes) : IsInstance(cls, clause.classes[k])

\* the body of the first except clause of a try that catches cls; None if the
\* exception leaves the try
Dispatch(clauses, cls) ==
  IF \E k \in 1..Len(clauses) : Catches(clauses[k], cls)
    THEN clauses[CHOOSE k \in 1..Len(clauses) :
                   /\ Catches(clauses[k], cls)
                   /\ \A h \in 1..(k - 1) : ~Catches(clauses[h], cls)].body
    ELSE None

\* a try of _get_and_send_quote without the clause that re-raises HTTPException
QuoteExceptClausesWithoutReraise ==
  << [classes |-> <<"VestaboardInvalidCharsError", "VestaboardAuthError", "VestaboardError">>,
      body |-> "vestaboard"],
     [classes |-> <<"ConnectionError">>, body |-> "database"],
     [classes |-> <<"Exception">>, body |-> "unexpected"] >>

\* lines 106-123: the except clauses of _get_and_send_quote, in order
QuoteExceptClauses ==
  << [classes |-> <<"VestaboardInvalidCharsError", "VestaboardAuthError", "VestaboardError">>,
      body |-> "vestaboard"],
     [classes |-> <<"HTTPException">>, body |-> "reraise"],
     [classes |-> <<"ConnectionError">>, body |-> "database"],
     [classes |-> <<"Exception">>, body |-> "unexpected"] >>

\* lines 106-123: exc was raised in the try body of _get_and_send_quote
QuoteRaised(r, exc) ==
  LET body == Dispatch(QuoteExceptClauses, exc.cls)
      error_message == ErrorMessage(r.endpoint)
  IN  CASE body = "vestaboard" ->
             LET logged == TextLogged(r, "error", "Vestaboard error sending quote")
             IN  IF IsInstance(exc.cls, "VestaboardInvalidCharsError")
                   THEN Answered(logged, 422, <<error_message, ": Invalid characters in quote.">>)
                 ELSE IF IsInstance(exc.cls, "VestaboardAuthError")
                   THEN Answered(logged, 503,
                                 <<error_message, ": Vestaboard authentication error.">>)
                 ELSE Answered(logged, 502,
                               <<error_message, ": Error communicating with Vestaboard.">>)
        [] body = "reraise" -> Answered(r, exc.status, exc.detail)
        [] body = "database" ->
             Answered(TextLogged(r, "error", "Database connection error getting quote"),
                      503, <<error_message, ": Database unavailable">>)
        [] OTHER ->
             Answered(TextLogged(r, "error", "Unexpected error in quote process"),
                      500, <<error_message, ": An unexpected internal error occurred">>)

\* lines 94-101: the quote function returned data
QuoteReturned(r, data) ==
  LET got == Awaited(r, "quote_func", data)
  IN  IF data = None
        THEN QuoteRaised(TextLogged(got, "warning", "Quote function returned None"),
                         HTTPExc(404, <<ErrorMessage(r.endpoint),
                                        ": Quote not found or DB disabled">>))
        ELSE [got EXCEPT !.data = data, !.sent = Append(@, data), !.pc = "await_send"]

\* lines 101-104: the await of send_message(data) ends with outcome
QuoteSendReturned(r, outcome) ==
  LET sent == Awaited(r, "send_message", outcome)
  IN  IF outcome = "ok"
        THEN Answered(TextLogged(sent, "info", "Successfully sent quote to board"),
                      200, <<SuccessMessage(r.endpoint)>>)
        ELSE QuoteRaised(sent, Exc(outcome))

\* a try of post_message whose clause for VestaboardError comes first
MessageExceptClausesBaseFirst ==
  << [classes |-> <<"VestaboardAuthError", "VestaboardError">>, body |-> "vestaboard"],
     [classes |-> <<"VestaboardInvalidCharsError">>, body |-> "invalid_chars"],
     [classes |-> <<"HTTPException">>, body |-> "reraise"],
     [classes |-> <<"Exception">>, body |-> "unexpected"] >>

\* lines 230-244: the except clauses of post_message, in order
MessageExceptClauses ==
  << [classes |-> <<"VestaboardInvalidCharsError">>, body |-> "invalid_chars"],
     [classes |-> <<"VestaboardAuthError", "VestaboardError">>, body |-> "vestaboard"],
     [classes |-> <<"HTTPException">>, body |-> "reraise"],
     [classes |-> <<"Exception">>, body |-> "unexpected"] >>

\* lines 230-244: exc was raised in the try body of post_message
MessageRaised(r, exc) ==
  LET body == Dispatch(MessageExceptClauses, exc.cls)
  IN  CASE body = "invalid_chars" ->
             Answered(TextLogged(r, "warning", "Invalid characters in message post"), 422,
                      <<"Invalid characters in message. See Vestaboard docs. Error: ", exc.cls>>)
        [] body = "vestaboard" ->
             Answered(TextLogged(r, "error", "Vestaboard error posting message"),
                      IF IsInstance(exc.cls, "VestaboardAuthError") THEN 503 ELSE 502,
                      <<"Vestaboard error sending message: ", exc.cls>>)
        [] body = "reraise" -> Answered(r, exc.status, exc.detail)
        [] OTHER ->
             Answered(TextLogged(r, "error", "Unexpected error posting message"), 500,
                      <<"An unexpected error occurred while sending the message">>)

\* lines 222-227: post_message up to its await
PostMessageStart(msg) ==
  LET r == [NoTextRequest EXCEPT !.endpoint = "/message", !.message = msg]
  IN  IF msg = ""
        THEN Answered(r, 400, <<"No message content provided.">>)
        ELSE [r EXCEPT !.sent = Append(@, msg), !.pc = "await_send"]

\* lines 227-228: the await of send_message(item.message) ends with outcome
MessageSendReturned(r, outcome) ==
  LET sent == Awaited(r, "send_message", outcome)
  IN  IF outcome = "ok"
        THEN Answered(sent, 200, <<"Message sent successfully">>)
        ELSE MessageRaised(sent, Exc(outcome))

(***************************************************************************)
(* SpecText: the text endpoints, one request at a time.                    *)
(***************************************************************************)
\* a client posts {"message": msg}
PostMessage(msg) ==
  /\ text_req.pc = "idle"
  /\ ntext < MaxText
  /\ ntext' = ntext + 1
  /\ text_req' = PostMessageStart(msg)
  /\ UNCHANGED <<db, settings>>

\* a client gets /sfw_quote or /nsfw_quote: the handler awaits the quote
\* function, which starts in a thread
GetQuote(endpoint, fault) ==
  /\ text_req.pc = "idle"
  /\ ntext < MaxText
  /\ ntext' = ntext + 1
  /\ text_req' = [NoTextRequest EXCEPT !.endpoint = endpoint, !.pc = "await_quote"]
  /\ db' = GetSingleRand(TableOf(endpoint), settings, fault)
  /\ UNCHANGED settings

DbConnect(outcome) ==
  /\ db.pc = "connect"
  /\ db' = GetDbConnection(db, settings, outcome)
  /\ UNCHANGED <<text_req, settings, ntext>>

DbCursor(outcome) ==
  /\ db.pc = "cursor"
  /\ db' = OpenCursor(db, outcome)
  /\ UNCHANGED <<text_req, settings, ntext>>

DbExecute(outcome) ==
  /\ db.pc = "execute"
  /\ db' = Execute(db, outcome)
  /\ UNCHANGED <<text_req, settings, ntext>>

DbFetch(outcome) ==
  /\ db.pc = "fetch"
  /\ db' = Fetch(db, outcome)
  /\ UNCHANGED <<text_req, settings, ntext>>

DbCloseCursor(outcome) ==
  /\ db.pc = "close_cur"
  /\ db' = CloseCursor(db, outcome)
  /\ UNCHANGED <<text_req, settings, ntext>>

DbCloseConnection(connected, outcome) ==
  /\ db.pc = "close_cnx"
  /\ db' = CloseConnection(db, connected, outcome)
  /\ UNCHANGED <<text_req, settings, ntext>>

\* the quote function is over; the handler runs on to its next await or its end
QuoteFuncDone ==
  /\ text_req.pc = "await_quote"
  /\ db.pc \in {"returned", "raised"}
  /\ text_req' = IF db.pc = "raised"
                    THEN QuoteRaised(Awaited(text_req, "quote_func", db.raised),
                                     Exc(db.raised))
                    ELSE QuoteReturned(text_req, db.result)
  /\ UNCHANGED <<db, settings, ntext>>

\* the send_message call is over; the handler runs to its end
SendMessageDone(outcome) ==
  /\ text_req.pc = "await_send"
  /\ text_req' = IF text_req.endpoint = "/message"
                    THEN MessageSendReturned(text_req, outcome)
                    ELSE QuoteSendReturned(text_req, outcome)
  /\ UNCHANGED <<db, settings, ntext>>

\* the answer is out; the next request can come
TextDone ==
  /\ text_req.pc = "responded"
  /\ ntext < MaxText
  /\ text_req' = NoTextRequest
  /\ db' = NoQuoteCall
  /\ UNCHANGED <<settings, ntext>>

InitText ==
  /\ rng = AppSeed
  /\ boggle_config = BOGGLE_CONFIG
  /\ GenInit
  /\ AppInit
  /\ settings \in SettingsInputs
  /\ TextInit
  /\ ConnInit

NextText ==
  \/ \E msg \in MessageInputs : PostMessage(msg) /\ UNCHANGED <<rng, genVars, appVars, connVars>>
  \/ \E endpoint \in QuoteEndpoints : \E fault \in QuoteFaults :
       GetQuote(endpoint, fault) /\ UNCHANGED <<rng, genVars, appVars, connVars>>
  \/ \E outcome \in ConnectOutcomes : DbConnect(outcome) /\ UNCHANGED <<rng, genVars, appVars, connVars>>
  \/ \E outcome \in DbOutcomes : DbCursor(outcome) /\ UNCHANGED <<rng, genVars, appVars, connVars>>
  \/ \E outcome \in DbOutcomes : DbExecute(outcome) /\ UNCHANGED <<rng, genVars, appVars, connVars>>
  \/ \E outcome \in FetchOutcomes : DbFetch(outcome) /\ UNCHANGED <<rng, genVars, appVars, connVars>>
  \/ \E outcome \in DbOutcomes : DbCloseCursor(outcome) /\ UNCHANGED <<rng, genVars, appVars, connVars>>
  \/ \E connected \in BOOLEAN : \E outcome \in DbOutcomes :
       DbCloseConnection(connected, outcome) /\ UNCHANGED <<rng, genVars, appVars, connVars>>
  \/ QuoteFuncDone /\ UNCHANGED <<rng, genVars, appVars, connVars>>
  \/ \E outcome \in SendMessageOutcomes :
       SendMessageDone(outcome) /\ UNCHANGED <<rng, genVars, appVars, connVars>>
  \/ TextDone /\ UNCHANGED <<rng, genVars, appVars, connVars>>

SpecText == InitText /\ [][NextText]_vars

(***************************************************************************)
(* app/connectors/vestaboard.py: the values the connector is handed.       *)
(***************************************************************************)
\* a Python value, as far as the connector looks at it: its type and its
\* content.  A str is a TLA+ string where the connector passes it on whole
\* (a subscription ID) and a sequence of characters where it looks into it
\* (the text of send_message).
PyValue(t, v) == [t |-> t, v |-> v]

\* object.get(key) of a dict: the value, or None
DictGet(d, key) == IF key \in DOMAIN d.v THEN d.v[key] ELSE PyValue("NoneType", <<>>)

\* bool(x)
Truthy(x) ==
  CASE x.t = "NoneType" -> FALSE
    [] x.t = "str" -> x.v # ""
    [] x.t = "int" -> x.v # 0
    [] x.t = "list" -> Len(x.v) > 0
    [] x.t = "dict" -> DOMAIN x.v # {}

DecimalDigits == <<"0","1","2","3","4","5","6","7","8","9">>

\* the decimal digits of a natural number, as characters
RECURSIVE DigitsOf(_)
DigitsOf(n) ==
  IF n < 10 THEN <<DecimalDigits[n + 1]>>
  ELSE Append(DigitsOf(n \div 10), DecimalDigits[(n % 10) + 1])

\* line 109: str(sub_id) of a str or an int
SubIdStr(x) == IF x.t = "str" THEN x.v ELSE ToString(x.v)

\* line 176: string_text = str(text) of a str or a natural number
StringText(text) == IF text.t = "str" THEN text.v ELSE DigitsOf(text.v)

\* the characters of the class [A-Za-z0-9!@$\(\)\-+&=;:\'\"\%,./?° ] of line 180
AllowedChars ==
  {UpperCase[k] : k \in DOMAIN UpperCase} \cup {LowerCase[k] : k \in DOMAIN LowerCase}
    \cup {DecimalDigits[k] : k \in DOMAIN DecimalDigits}
    \cup {"!", "@", "$", "(", ")", "-", "+", "&", "=", ";", ":", "'", "\"",
          "%", ",", ".", "/", "?", "°", " "}

\* line 180: re.match(r"^[...]*$", string_text).  Without re.MULTILINE "$"
\* matches at the end of the string and also just before a newline that ends
\* the string.
ValidChars(string_text) ==
  LET n == Len(string_text)
      last == IF n > 0 /\ string_text[n] = "\n" THEN n - 1 ELSE n
  IN  \A k \in 1..last : string_text[k] \in AllowedChars

\* the texts handed to send_message: allowed characters, a character outside
\* the class, a newline at the end, a newline in the middle, the empty string,
\* a number
TextInputs ==
  << PyValue("str", <<"H", "i", " ", "4", "!">>),
     PyValue("str", <<"H", "#">>),
     PyValue("str", <<"H", "I", "\n">>),
     PyValue("str", <<"H", "\n", "I">>),
     PyValue("str", <<>>),
     PyValue("int", 42) >>

\* the arguments handed to send_array: a grid, a str, None
CharactersInputs ==
  << PyValue("list", << <<2, 0, 66>>, <<65, 1, 26>> >>),
     PyValue("str", "grid"),
     PyValue("NoneType", <<>>) >>

(***************************************************************************)
(* app/connectors/vestaboard.py: what the HTTP client answers.             *)
(***************************************************************************)
\* what the client gives for a request: a response with its status and its
\* body (a body that is not JSON has the type "not json"), or, raises being
\* a class, an exception of that class
Response(raises, status_code, body) ==
  [raises |-> raises, status_code |-> status_code, body |-> body]

\* {"subscriptions": subs}
Subscriptions(subs) == PyValue("dict", "subscriptions" :> PyValue("list", subs))

\* what GET /subscriptions is answered: a first subscription with an ID (a
\* str, another str, an int), HTTP 401, 403, 500, a network error, a body that
\* is not JSON, and JSON of other shapes: no "subscriptions" key, an empty
\* list, "subscriptions" not a list, a first subscription without "_id", with
\* an empty "_id", a first subscription that is a str, and a body that is a
\* list
GetResponses ==
  << Response(None, 200, Subscriptions(<<PyValue("dict", "_id" :> PyValue("str", "sub-1"))>>)),
     Response(None, 200, Subscriptions(<<PyValue("dict", "_id" :> PyValue("str", "sub-2")),
                                         PyValue("dict", "_id" :> PyValue("str", "sub-1"))>>)),
     Response(None, 200, Subscriptions(<<PyValue("dict", "_id" :> PyValue("int", 7))>>)),
     Response(None, 401, PyValue("not json", <<>>)),
     Response(None, 403, PyValue("not json", <<>>)),
     Response(None, 500, PyValue("not json", <<>>)),
     Response("ConnectError", 0, PyValue("not json", <<>>)),
     Response(None, 200, PyValue("not json", <<>>)),
     Response(None, 200, PyValue("dict", <<>>)),
     Response(None, 200, Subscriptions(<<>>)),
     Response(None, 200, PyValue("dict", "subscriptions" :> PyValue("str", "sub-1"))),
     Response(None, 200, Subscriptions(<<PyValue("dict", <<>>)>>)),
     Response(None, 200, Subscriptions(<<PyValue("dict", "_id" :> PyValue("str", ""))>>)),
     Response(None, 200, Subscriptions(<<PyValue("str", "sub-1")>>)),
     Response(None, 200, PyValue("list", <<>>)) >>

\* what POST /subscriptions/{sub_id}/message is answered
PostResponses ==
  << Response(None, 200, PyValue("dict", <<>>)),
     Response(None, 500, PyValue("not json", <<>>)),
     Response("ConnectError", 0, PyValue("not json", <<>>)) >>

(***************************************************************************)
(* app/connectors/vestaboard.py: _get_subscription_id, _post_message,      *)
(* send_array, send_message.  A call runs from one await to the next in    *)
(* one piece: w is the connector, the calls and the HTTP traffic before    *)
(* the piece, the value is the same after it.                              *)
(***************************************************************************)
\* the outcome of the fetch: the ID, or the exception raised
Fetched(sub_id, exc) == [sub_id |-> sub_id, raised |-> exc]

\* lines 105-115: the first subscription's ID taken out of the decoded
\* content; .get of an object that is not a dict raises AttributeError
ExtractSubscriptionId(content) ==
  IF content.t # "dict" THEN Fetched(None, "AttributeError")
  ELSE LET subs == DictGet(content, "subscriptions")
       IN  IF subs.t = "list" /\ Len(subs.v) > 0
             THEN IF subs.v[1].t # "dict" THEN Fetched(None, "AttributeError")
                  ELSE LET sub_id == DictGet(subs.v[1], "_id")
                       IN  IF Truthy(sub_id) THEN Fetched(SubIdStr(sub_id), None)
                           ELSE Fetched(None, "VestaboardAuthError")
             ELSE Fetched(None, "VestaboardAuthError")

\* lines 117-125: the except clauses of the fetch, in order
FetchExceptClauses ==
  << [classes |-> <<"HTTPStatusError">>, body |-> "status"],
     [classes |-> <<"RequestError", "ValueError", "KeyError", "TypeError">>,
      body |-> "processing"] >>

\* lines 98-125: the try as a whole; tried is the outcome of its body
\* (lines 100-115)
FetchSubscriptionId(response) ==
  LET tried ==
        IF response.raises # None THEN Fetched(None, response.raises)
        ELSE IF response.status_code >= 400 THEN Fetched(None, "HTTPStatusError")
        ELSE IF response.body.t = "not json" THEN Fetched(None, "JSONDecodeError")
        ELSE ExtractSubscriptionId(response.body)
      body == Dispatch(FetchExceptClauses, tried.raised)
  IN  IF tried.raised = None THEN tried
      ELSE CASE body = "status" ->
                  Fetched(None, IF response.status_code \in {401, 403}
                                  THEN "VestaboardAuthError" ELSE "VestaboardError")
             [] body = "processing" -> Fetched(None, "VestaboardError")
             [] OTHER -> tried

\* lines 134-140: the except clauses of _post_message, in order
PostExceptClauses ==
  << [classes |-> <<"HTTPStatusError">>, body |-> "status"],
     [classes |-> <<"RequestError">>, body |-> "network"] >>

\* lines 130-140: the exception _post_message raises, None if it returns
PostMessageRaises(response) ==
  LET tried == IF response.raises # None THEN response.raises
               ELSE IF response.status_code >= 400 THEN "HTTPStatusError" ELSE None
  IN  IF tried = None THEN None
      ELSE IF Dispatch(PostExceptClauses, tried) # None THEN "VestaboardError"
      ELSE tried

\* asyncio.Lock.acquire() returns at once: nobody holds the lock, nobody waits
LockFree(lock) == ~lock.locked /\ lock.waiters = <<>>

\* asyncio.Lock.release(): the first call waiting takes the lock when it runs
Release(lock) == [lock EXCEPT !.locked = FALSE]

\* the call is over: it returned (exc is None) or raised
Left(w, c, exc) == [w EXCEPT !.send[c].pc = "done", !.send[c].raised = exc]

\* lines 158-161, 184-187, 129-131: the ID is back, the call posts its
\* payload (lines 159 and 185) and awaits the answer
GotSubscriptionId(w, c, sub_id) ==
  LET payload == IF w.send[c].method = "send_array"
                   THEN [key |-> "characters", value |-> w.send[c].arg.v]
                   ELSE [key |-> "text", value |-> w.send[c].string_text]
  IN
  [w EXCEPT !.send[c].pc = "posting",
            !.send[c].sub_id = sub_id,
            !.http = Append(@, [call |-> c, ev |-> "POST",
                                arg |-> [sub_id |-> sub_id, payload |-> payload]])]

\* a call that fetches whenever it gets the lock, without a second look at
\* the cache
UnderLockFetchesAlways(w, c) ==
  [w EXCEPT !.send[c].pc = "fetching",
            !.http = Append(@, [call |-> c, ev |-> "GET", arg |-> "/subscriptions"])]

\* lines 93-100: the lock is held; the cache is looked at again, then the GET
\* is issued and awaited
UnderLock(w, c) ==
  IF w.connector.subscription_id # None
    THEN GotSubscriptionId([w EXCEPT !.connector.sub_id_lock = Release(@)],
                           c, w.connector.subscription_id)
    ELSE [w EXCEPT !.send[c].pc = "fetching",
                   !.http = Append(@, [call |-> c, ev |-> "GET", arg |-> "/subscriptions"])]

\* lines 88-92: the look at the cache without the lock, then the lock
GetSubscriptionId(w, c) ==
  IF w.connector.subscription_id # None
    THEN GotSubscriptionId(w, c, w.connector.subscription_id)
  ELSE IF LockFree(w.connector.sub_id_lock)
    THEN UnderLock([w EXCEPT !.connector.sub_id_lock.locked = TRUE], c)
  ELSE [w EXCEPT !.connector.sub_id_lock.waiters = Append(@, c),
                 !.send[c].pc = "waiting",
                 !.send[c].waited = TRUE]

\* a fetch that keeps the lock when it fails
SubscriptionsAnsweredKeepsLock(w, c, k) ==
  LET f == FetchSubscriptionId(GetResponses[k])
      heard == [w EXCEPT !.http = Append(@, [call |-> c, ev |-> "GET_response", arg |-> f])]
  IN  IF f.raised = None
        THEN GotSubscriptionId([heard EXCEPT !.connector.subscription_id = f.sub_id,
                                             !.connector.sub_id_lock = Release(@)],
                               c, f.sub_id)
        ELSE Left(heard, c, f.raised)

\* lines 100-125 and the end of "async with": the GET is answered with
\* GetResponses[k] and the traffic keeps what the fetch made of the answer;
\* the lock is released whichever way the block is left
SubscriptionsAnswered(w, c, k) ==
  LET f == FetchSubscriptionId(GetResponses[k])
      heard == [w EXCEPT !.http = Append(@, [call |-> c, ev |-> "GET_response", arg |-> f]),
                         !.connector.sub_id_lock = Release(@)]
  IN  IF f.raised = None
        THEN GotSubscriptionId([heard EXCEPT !.connector.subscription_id = f.sub_id],
                               c, f.sub_id)
        ELSE Left(heard, c, f.raised)

\* lines 154-158: send_array(characters) up to its first await
SendArray(w, c, characters) ==
  LET called == [w EXCEPT !.send[c].method = "send_array",
                          !.send[c].arg = characters]
  IN  IF characters.t # "list" THEN Left(called, c, "TypeError")
      ELSE GetSubscriptionId(called, c)

\* a send_message that does not look at the characters
SendMessageUnvalidated(w, c, text) ==
  GetSubscriptionId([w EXCEPT !.send[c].method = "send_message",
                              !.send[c].arg = text,
                              !.send[c].string_text = StringText(text)], c)

\* lines 176-184: send_message(text) up to its first await
SendMessage(w, c, text) ==
  LET string_text == StringText(text)
      called == [w EXCEPT !.send[c].method = "send_message",
                          !.send[c].arg = text,
                          !.send[c].string_text = string_text]
  IN  IF ~ValidChars(string_text)
        THEN Left(called, c, "VestaboardInvalidCharsError")
        ELSE GetSubscriptionId(called, c)

(***************************************************************************)
(* SpecConn: concurrent calls on one connector.                            *)
(***************************************************************************)
\* a coroutine calls send_array(CharactersInputs[k])
SendArrayCalled(c, k) ==
  /\ send[c].pc = "new"
  /\ \A j \in Sends : j < c => send[j].pc # "new"
  /\ LET w == SendArray([connector |-> connector, send |-> send, http |-> http],
                        c, CharactersInputs[k])
     IN  /\ connector' = w.connector
         /\ send' = w.send
         /\ http' = w.http
  /\ UNCHANGED <<rng, genVars, appVars, textVars>>

\* a coroutine calls send_message(TextInputs[k])
SendMessageCalled(c, k) ==
  /\ send[c].pc = "new"
  /\ \A j \in Sends : j < c => send[j].pc # "new"
  /\ LET w == SendMessage([connector |-> connector, send |-> send, http |-> http],
                          c, TextInputs[k])
     IN  /\ connector' = w.connector
         /\ send' = w.send
         /\ http' = w.http
  /\ UNCHANGED <<rng, genVars, appVars, textVars>>

\* the lock was released and the call that waited longest runs
LockAcquired(c) ==
  /\ send[c].pc = "waiting"
  /\ ~connector.sub_id_lock.locked
  /\ connector.sub_id_lock.waiters # <<>>
  /\ Head(connector.sub_id_lock.waiters) = c
  /\ LET w == UnderLock([connector |-> [connector EXCEPT !.sub_id_lock.locked = TRUE,
                                                           !.sub_id_lock.waiters = Tail(@)],
                         send |-> send, http |-> http], c)
     IN  /\ connector' = w.connector
         /\ send' = w.send
         /\ http' = w.http
  /\ UNCHANGED <<rng, genVars, appVars, textVars>>

\* GET /subscriptions is answered
SubscriptionsResponse(c, k) ==
  /\ send[c].pc = "fetching"
  /\ LET w == SubscriptionsAnswered([connector |-> connector, send |-> send, http |-> http],
                                    c, k)
     IN  /\ connector' = w.connector
         /\ send' = w.send
         /\ http' = w.http
  /\ UNCHANGED <<rng, genVars, appVars, textVars>>

\* POST /subscriptions/{sub_id}/message is answered
PostResponse(c, k) ==
  /\ send[c].pc = "posting"
  /\ LET exc == PostMessageRaises(PostResponses[k])
         w == Left([connector |-> connector, send |-> send,
                    http |-> Append(http, [call |-> c, ev |-> "POST_response",
                                           arg |-> exc])],
                   c, exc)
     IN  /\ connector' = w.connector
         /\ send' = w.send
         /\ http' = w.http
  /\ UNCHANGED <<rng, genVars, appVars, textVars>>

NextConn ==
  \/ \E c \in Sends : \E k \in DOMAIN CharactersInputs : SendArrayCalled(c, k)
  \/ \E c \in Sends : \E k \in DOMAIN TextInputs : SendMessageCalled(c, k)
  \/ \E c \in Sends : LockAcquired(c)
  \/ \E c \in Sends : \E k \in DOMAIN GetResponses : SubscriptionsResponse(c, k)
  \/ \E c \in Sends : \E k \in DOMAIN PostResponses : PostResponse(c, k)

\* the application as Init leaves it, its connector unused
SpecConn == Init /\ [][NextConn]_vars

(***************************************************************************)
(* Properties of the game start (Spec, FairSpec).                          *)
(***************************************************************************)
\* the positions of the events named ev in a trace
Positions(tr, ev) == {k \in 1..Len(tr) : tr[k].ev = ev}

\* event e is the event ev with argument arg
Is(e, ev, arg) == e.ev = ev /\ e.arg = arg

\* the start-grid send of a request failed
StartSendFailed(r) == Len(r.trace) >= 3 /\ r.trace[3].ev = "send_array_raised"

\* the end-grid send of a request failed
EndSendFailed(r) == \E k \in Positions(r.trace, "send_array_raised") : k > 3

\* the generator and both sends of a request succeeded
BothSendsSucceeded(r) == Cardinality(Positions(r.trace, "send_array_ok")) = 2

\* the end-grid send of a request has been attempted
EndSendAttempted(r) == \E k \in Positions(r.trace, "send_array") : k > 2

\* what a request has done once its handler answered 202
AcceptedPrefix(r) ==
  /\ Len(r.trace) >= 5
  /\ Is(r.trace[1], "generate", r.size)
  /\ Is(r.trace[2], "send_array", r.start_grid)
  /\ r.trace[3].ev = "send_array_ok"
  /\ Is(r.trace[4], "add_task", r.end_grid)
  /\ Is(r.trace[5], "response", 202)

\* C1: for a request of size 4 or 5 whose generator and sends succeed, the
\* generator is called once with the size, send_array is called once with the
\* start grid before the 202 answer, and once more, with the end grid, after
\* the answer and after 200 seconds of sleep: twice in total.
C1_AcceptedGameSendsTwice ==
  \A i \in Reqs :
    LET r == req[i]
    IN  /\ Cardinality(Positions(r.trace, "generate")) <= 1
        /\ Cardinality(Positions(r.trace, "send_array")) <= 2
        /\ r.status = 202 =>
             /\ r.size \in {4, 5}
             /\ AcceptedPrefix(r)
             /\ r.detail = <<"Boggle ", r.size, "x", r.size, " game queued.">>
        /\ BothSendsSucceeded(r) =>
             /\ r.status = 202
             /\ AcceptedPrefix(r)
             /\ Len(r.trace) = 9
             /\ Is(r.trace[6], "sleep", 200)
             /\ r.trace[7].ev = "woke" /\ r.trace[7].arg >= 200
             /\ Is(r.trace[8], "send_array", r.end_grid)
             /\ r.trace[9].ev = "send_array_ok"
             /\ r.start_grid # r.end_grid
             /\ Cardinality(Positions(r.trace, "generate")) = 1
             /\ Cardinality(Positions(r.trace, "send_array")) = 2

\* a size-5 game whose two sends both succeeded
C1_Witness ==
  \E i \in Reqs :
    /\ req[i].pc = "done"
    /\ req[i].size = 5
    /\ BothSendsSucceeded(req[i])

\* C2: when the start-grid send fails (authentication, other Vestaboard error
\* or any other exception) the caller is told so, no delayed task is
\* scheduled, and send_array is called once in total for the request.
C2_FailedStartSendSchedulesNothing ==
  \A i \in Reqs :
    LET r == req[i]
    IN  StartSendFailed(r) =>
          /\ r.pc = "done"
          /\ r.status \in {500, 502, 503}
          /\ r.tasks = <<>>
          /\ Positions(r.trace, "add_task") = {}
          /\ Positions(r.trace, "sleep") = {}
          /\ Positions(r.trace, "send_array") = {2}
          /\ Len(r.trace) = 4
          /\ Is(r.trace[4], "response", r.status)

\* a game start answered 503 after an authentication failure, and one answered
\* 500 after another exception
C2_Witness ==
  /\ \E i \in Reqs :
       /\ StartSendFailed(req[i])
       /\ req[i].trace[3].arg = "VestaboardAuthError"
       /\ req[i].status = 503
  /\ \E i \in Reqs :
       /\ StartSendFailed(req[i])
       /\ req[i].trace[3].arg = "RuntimeError"
       /\ req[i].status = 500

\* C3: when the delayed end-grid send fails, the 202 answer stands, the
\* failure is written to the error log once, the exception stays inside the
\* background task, and the send is not retried: two send_array calls, start
\* grid then end grid.
C3_FailedEndSendIsLoggedOnce ==
  \A i \in Reqs :
    LET r == req[i]
    IN  EndSendFailed(r) =>
          /\ r.pc = "done"
          /\ r.status = 202
          /\ AcceptedPrefix(r)
          /\ Positions(r.trace, "response") = {5}
          /\ Len(error_log[i]) = 1
          /\ error_log[i][1].msg = "Error sending Boggle end grid in background task"
          /\ Cardinality(Positions(r.trace, "log_error")) = 1
          /\ Positions(r.trace, "task_raised") = {}
          /\ r.tasks = <<>>
          /\ Positions(r.trace, "send_array") = {2, 8}
          /\ Is(r.trace[2], "send_array", r.start_grid)
          /\ Is(r.trace[8], "send_array", r.end_grid)

\* an accepted game whose end-grid send raised an exception that is no
\* Vestaboard error
C3_Witness ==
  \E i \in Reqs :
    /\ EndSendFailed(req[i])
    /\ req[i].pc = "done"
    /\ \E k \in Positions(req[i].trace, "send_array_raised") :
         req[i].trace[k].arg = "RuntimeError"

\* C4: in every game start the start-grid send completes, then the delayed
\* task is scheduled, then one sleep of 200 seconds passes in full, then the
\* end-grid send is issued; it is never issued before either.
C4_EndSendAfterStartSendAndDelay ==
  \A i \in Reqs :
    LET r == req[i]
        tr == r.trace
    IN  /\ \A k \in Positions(tr, "add_task") :
             k > 1 /\ tr[k - 1].ev = "send_array_ok" /\ (k - 1) > 2
               /\ Is(tr[2], "send_array", r.start_grid)
        /\ Cardinality(Positions(tr, "sleep")) <= 1
        /\ \A k \in Positions(tr, "sleep") :
             /\ tr[k].arg = GAME_DURATION
             /\ \E a \in Positions(tr, "add_task") : a < k
        /\ \A k \in Positions(tr, "woke") :
             /\ tr[k].arg >= GAME_DURATION
             /\ k > 1 /\ tr[k - 1].ev = "sleep"
        /\ \A k \in Positions(tr, "send_array") :
             k > 2 => tr[k - 1].ev = "woke"
        /\ r.pc \in {"await_start_send", "responded", "sleeping"} =>
             Positions(tr, "send_array") = {2}
        /\ r.pc = "sleeping" /\ r.slept < GAME_DURATION => ~EndSendAttempted(r)

\* an end-grid send issued after the full sleep, while another game, started
\* later, was still in its own
C4_Witness ==
  \E i \in Reqs : \E j \in Reqs :
    /\ i # j
    /\ EndSendAttempted(req[i])
    /\ \E k \in Positions(req[i].trace, "woke") : req[i].trace[k].arg >= GAME_DURATION
    /\ req[j].pc = "sleeping"
    /\ req[j].slept < GAME_DURATION

\* C5: a delayed end-grid send, once scheduled, is eventually attempted under
\* fair scheduling: nothing cancels or supersedes it.
C5_ScheduledEndSendIsAttempted ==
  \A i \in Reqs : (req[i].tasks # <<>>) ~> EndSendAttempted(req[i])

\* an end-grid send attempted while a later game start was under way
C5_Witness ==
  \E i \in Reqs : \E j \in Reqs :
    /\ i < j
    /\ EndSendAttempted(req[i])
    /\ req[i].pc = "await_end_send"
    /\ req[j].pc \in {"await_start_send", "responded", "sleeping"}

(***************************************************************************)
(* Properties of the generator (SpecGen).                                  *)
(***************************************************************************)
\* the geometry of the display, as the tests check it
DISPLAY_ROWS == 6
DISPLAY_COLS == 22

\* how often v occurs in seq
Count(seq, v) == Cardinality({k \in 1..Len(seq) : seq[k] = v})

Range(seq) == {seq[k] : k \in 1..Len(seq)}

\* how often v occurs in a grid
RECURSIVE GridCount(_, _)
GridCount(grid, v) ==
  IF grid = <<>> THEN 0 ELSE Count(Head(grid), v) + GridCount(Tail(grid), v)

\* the (row, column) pairs of the letter placeholders of a mid-rows template
PlaceholderCells(mid_rows) ==
  {rc \in (1..Len(mid_rows)) \X (1..DISPLAY_COLS) :
     rc[2] <= Len(mid_rows[rc[1]]) /\ mid_rows[rc[1]][rc[2]] = LETTER_PLACEHOLDER}

\* the rows the mid rows are shifted by in an assembled grid
GridRowOffset(config) == IF config.begin_row # None THEN 1 ELSE 0

\* row-major order of cells
CellBefore(a, b) == a[1] < b[1] \/ (a[1] = b[1] /\ a[2] < b[2])

\* the population loops have run to their end
PopulationOver ==
  \/ gpc \in {"assembled", "returned"}
  \/ /\ gpc = "populate"
     /\ PopulateFinished(PopState(populated_mid_rows, available_numbers, rng,
                                  row_index, col_index, raised))

IsDisplayGrid(grid) ==
  /\ Len(grid) = DISPLAY_ROWS
  /\ \A r \in 1..Len(grid) :
       /\ Len(grid[r]) = DISPLAY_COLS
       /\ \A c \in 1..Len(grid[r]) : grid[r][c] \in Int

\* C6: for sizes 4 and 5 and every outcome of the random choices, the start
\* grid and the end grid returned are each 6 rows of 22 integer cells.
C6_GridsAreSixByTwentyTwo ==
  gpc = "returned" => IsDisplayGrid(start_grid) /\ IsDisplayGrid(end_grid)

\* a size-5 generation (no begin row) has returned its grids
C6_Witness == gpc = "returned" /\ size = 5 /\ Len(end_grid) = DISPLAY_ROWS

\* C7: per size the template holds as many placeholders as there are dice (16
\* and 25); a generation consumes exactly that many rolled numbers: the pool
\* is empty when population finishes and the mismatch error is never raised.
C7_PlaceholdersMatchDice ==
  /\ \A s \in DOMAIN BOGGLE_CONFIG :
       /\ Cardinality(PlaceholderCells(BOGGLE_CONFIG[s].mid_rows)) = Len(BOGGLE_CONFIG[s].dice)
       /\ Len(BOGGLE_CONFIG[s].dice) = s * s
  /\ gpc = "populate" => Len(letter_numbers) = size * size
  /\ PopulationOver =>
       /\ available_numbers = <<>>
       /\ Len(letter_numbers) = Cardinality(PlaceholderCells(BOGGLE_CONFIG[size].mid_rows))
  /\ raised # "RuntimeError"

\* the population of a size-5 template has just finished with the pool used up
C7_Witness ==
  /\ gpc = "assembled"
  /\ size = 5
  /\ Len(letter_numbers) = 25
  /\ available_numbers = <<>>

\* the values placed so far: those at the placeholder cells the loops have passed
PlacedSoFar ==
  {rc \in PlaceholderCells(BOGGLE_CONFIG[size].mid_rows) :
     CellBefore(rc, <<row_index, col_index>>)}

\* C8: the multiset of values at the placeholder positions equals the multiset
\* of rolled numbers: while the loops run, placed values plus pool make up the
\* roll; in the start grid every rolled number sits at exactly one placeholder.
C8_PlacedMultisetIsRoll ==
  /\ gpc = "populate" =>
       \A v \in Range(letter_numbers) \cup Range(available_numbers)
                \cup {populated_mid_rows[rc[1]][rc[2]] : rc \in PlacedSoFar} :
         Cardinality({rc \in PlacedSoFar : populated_mid_rows[rc[1]][rc[2]] = v})
           + Count(available_numbers, v) = Count(letter_numbers, v)
  /\ gpc \in {"assembled", "returned"} =>
       LET cfg == BOGGLE_CONFIG[size]
           cells == PlaceholderCells(cfg.mid_rows)
           at(rc) == start_grid[rc[1] + GridRowOffset(cfg)][rc[2]]
       IN  \A v \in Range(letter_numbers) \cup {at(rc) : rc \in cells} :
             Cardinality({rc \in cells : at(rc) = v}) = Count(letter_numbers, v)

\* a grid was returned for a roll in which one letter came up on three dice or more
C8_Witness ==
  /\ gpc = "returned"
  /\ \E v \in Range(letter_numbers) : Count(letter_numbers, v) >= 3

\* C9: cell by cell, the end grid holds 63 where the start grid holds 66 and
\* the start grid's value everywhere else (letters and frame codes alike).
C9_EndGridIsStartWithBoundarySwapped ==
  gpc = "returned" =>
    /\ Len(end_grid) = Len(start_grid)
    /\ \A r \in 1..Len(start_grid) :
         /\ Len(end_grid[r]) = Len(start_grid[r])
         /\ \A c \in 1..Len(start_grid[r]) :
              end_grid[r][c] = IF start_grid[r][c] = 66 THEN 63 ELSE start_grid[r][c]

\* a pair was returned whose grids differ in some cell and agree on a letter cell
C9_Witness ==
  /\ gpc = "returned"
  /\ \E r \in 1..Len(start_grid) : \E c \in 1..Len(start_grid[r]) :
       start_grid[r][c] = 66 /\ end_grid[r][c] = 63
  /\ \E rc \in PlaceholderCells(BOGGLE_CONFIG[size].mid_rows) :
       end_grid[rc[1] + GridRowOffset(BOGGLE_CONFIG[size])][rc[2]]
         = start_grid[rc[1] + GridRowOffset(BOGGLE_CONFIG[size])][rc[2]]

\* C10: the start grid holds at least one 66 and no 63, the end grid holds no
\* 66, and the end grid holds as many 63 as the start grid holds 66.
C10_BoundaryCounts ==
  gpc = "returned" =>
    /\ GridCount(start_grid, 66) >= 1
    /\ GridCount(start_grid, 63) = 0
    /\ GridCount(end_grid, 66) = 0
    /\ GridCount(end_grid, 63) = GridCount(start_grid, 66)

\* a size-4 pair was returned with its 20 boundary cells turned
C10_Witness ==
  /\ gpc = "returned"
  /\ size = 4
  /\ GridCount(end_grid, 63) = 20

\* the letter codes of the display: A=1 .. Z=26
LetterCodes == 1..26

\* the values a grid holds at the placeholder positions of its size's template
LettersOf(grid, config) ==
  {grid[rc[1] + GridRowOffset(config)][rc[2]] : rc \in PlaceholderCells(config.mid_rows)}

\* C11: in every generated grid, start and end, sizes 4 and 5, every value at
\* a placeholder position of the template is a letter code in 1..26; so is
\* every rolled number and every value placed while the template is filled.
C11_LettersAreLetterCodes ==
  /\ gpc \in {"populate", "assembled", "returned"} =>
       /\ Range(letter_numbers) \subseteq LetterCodes
       /\ Range(available_numbers) \subseteq LetterCodes
       /\ \A rc \in PlacedSoFar : populated_mid_rows[rc[1]][rc[2]] \in LetterCodes
  /\ gpc \in {"assembled", "returned"} =>
       LettersOf(start_grid, BOGGLE_CONFIG[size]) \subseteq LetterCodes
  /\ gpc = "returned" =>
       LettersOf(end_grid, BOGGLE_CONFIG[size]) \subseteq LetterCodes

\* a returned end grid that holds both an A (1, the placeholder's own code) and
\* a letter of the second half of the alphabet
C11_Witness ==
  /\ gpc = "returned"
  /\ 1 \in LettersOf(end_grid, BOGGLE_CONFIG[size])
  /\ \E v \in LettersOf(end_grid, BOGGLE_CONFIG[size]) : v >= 20

\* a call of the generator is under way with a size that is not 4 or 5
UnsupportedCall == gpc # "idle" /\ size \notin {4, 5}

\* C12: for every size outside {4, 5} (0, 3, 6) the generator raises the
\* ValueError that names the size, before any lookup or dice rolling (the
\* random state and every local stay as they were), returns no grid, and never
\* carries on with a supported size instead.
C12_UnsupportedSizeRaisesFirst ==
  /\ [](UnsupportedCall =>
          /\ gpc = "raised"
          /\ raised = "ValueError"
          /\ raised_args = <<"Unsupported Boggle size: ", size,
                             ". Supported sizes are ", <<4, 5>> >>
          /\ shuffled_dice = <<>> /\ letter_numbers = <<>>
          /\ available_numbers = <<>> /\ populated_mid_rows = <<>>
          /\ start_grid = <<>> /\ end_grid = <<>>)
  /\ [](raised = "ValueError" => size \notin {4, 5})
  /\ [][(gpc = "idle" /\ gpc' # "idle" /\ size' \notin {4, 5}) => rng' = rng]_vars
  /\ [][(gpc = "raised" /\ raised = "ValueError" /\ gpc' # gpc) =>
          (gpc' = "idle" /\ start_grid' = <<>> /\ end_grid' = <<>> /\ rng' = rng)]_vars

\* size 0 refused on a second call, after a first call has rolled the dice
C12_Witness ==
  /\ gpc = "raised"
  /\ raised = "ValueError"
  /\ size = 0
  /\ ncalls = 2
  /\ rng \notin Seeds

\* a call is under way whose roll and template disagree in number
RollMismatch ==
  /\ gpc \in {"populate", "assembled", "returned", "raised"}
  /\ size \in DOMAIN boggle_config
  /\ Len(letter_numbers) # Cardinality(PlaceholderCells(boggle_config[size].mid_rows))

GenerationFailed(r) ==
  \E k \in 1..Len(r.trace) : r.trace[k].ev \in {"generate_raised", "generate_empty"}

\* nothing of the request reached the connector or the background tasks
NothingSent(r) ==
  /\ Positions(r.trace, "send_array") = {}
  /\ Positions(r.trace, "add_task") = {}
  /\ Positions(r.trace, "sleep") = {}
  /\ r.tasks = <<>>
  /\ r.start_grid = <<>>
  /\ r.end_grid = <<>>

\* C14: when grid generation raises or yields an empty grid, the request is
\* answered 500 'Error creating game grids', send_array is never called and
\* no delayed task is scheduled; and no grid that is empty is ever sent.
C14_FailedGenerationSendsNothing ==
  \A i \in Reqs :
    LET r == req[i]
    IN  /\ GenerationFailed(r) =>
             /\ r.pc = "done"
             /\ r.status = 500
             /\ r.detail = <<"Error creating game grids">>
             /\ NothingSent(r)
             /\ Len(r.trace) = 3
             /\ Is(r.trace[1], "generate", r.size)
             /\ Is(r.trace[3], "response", 500)
             /\ Len(error_log[i]) = 1
        /\ \A k \in Positions(r.trace, "send_array") :
             r.trace[k].arg # <<>> /\ IsDisplayGrid(r.trace[k].arg)

\* one request whose generator raised and one whose generator returned empty
\* grids, both answered 500
C14_Witness ==
  /\ \E i \in Reqs :
       /\ req[i].status = 500
       /\ \E k \in 1..Len(req[i].trace) : Is(req[i].trace[k], "generate_raised", "ValueError")
  /\ \E i \in Reqs :
       /\ req[i].status = 500
       /\ \E k \in 1..Len(req[i].trace) : req[i].trace[k].ev = "generate_empty"

\* C15: a request whose size is not 4 or 5 is answered 400 'Invalid Boggle
\* size. Must be 4 or 5.' before the generator is invoked: never 500, no
\* generator call, no send_array call, no delayed task, no draw from the
\* random state.
C15_InvalidSizeIsClientError ==
  /\ [](\A i \in Reqs :
          LET r == req[i]
          IN  /\ (r.pc # "new" /\ r.size \notin {4, 5}) =>
                   /\ r.pc = "done"
                   /\ r.status = 400
                   /\ r.detail = <<"Invalid Boggle size. Must be 4 or 5.">>
                   /\ r.trace = <<Event("response", 400)>>
                   /\ NothingSent(r)
                   /\ error_log[i] = <<>>
              /\ r.status = 400 => r.size \notin {4, 5})
  /\ [][\A i \in Reqs :
           (req[i].pc = "new" /\ req'[i].pc # "new" /\ req'[i].size \notin {4, 5})
             => rng' = rng]_vars

\* size 6 refused after an earlier game was accepted
C15_Witness ==
  \E i \in Reqs : \E j \in Reqs :
    /\ i < j
    /\ req[i].status = 202
    /\ req[j].size = 6
    /\ req[j].status = 400

\* the status the handler owes a start-grid send that raised exc
StartFailureStatus(exc) ==
  IF exc = "VestaboardAuthError" THEN 503
  ELSE IF exc \in {"VestaboardError", "VestaboardInvalidCharsError"} THEN 502
  ELSE 500

\* C16: a failed start-grid send maps to one status by its category:
\* VestaboardAuthError 503, any other VestaboardError 502, any other
\* exception 500; it never yields 202.
C16_StartSendFailureStatus ==
  \A i \in Reqs :
    LET r == req[i]
    IN  StartSendFailed(r) =>
          /\ r.status = StartFailureStatus(r.trace[3].arg)
          /\ r.status # 202
          /\ Positions(r.trace, "response") = {4}
          /\ r.trace[4].arg = r.status

\* an authentication failure answered 503 and another Vestaboard error
\* answered 502
C16_Witness ==
  /\ \E i \in Reqs :
       StartSendFailed(req[i]) /\ req[i].trace[3].arg = "VestaboardAuthError"
         /\ req[i].status = 503
  /\ \E i \in Reqs :
       StartSendFailed(req[i]) /\ req[i].trace[3].arg = "VestaboardError"
         /\ req[i].status = 502

(***************************************************************************)
(* Properties of the text endpoints and of the quote lookup (SpecText).    *)
(***************************************************************************)
\* the status POST /message owes a send_message call that ended with outcome
MessageStatus(outcome) ==
  CASE outcome = "ok" -> 200
    [] outcome = "VestaboardInvalidCharsError" -> 422
    [] outcome = "VestaboardAuthError" -> 503
    [] outcome = "VestaboardError" -> 502
    [] OTHER -> 500

\* C17: POST /message answers an empty message with 400 without calling the
\* connector; otherwise it calls send_message once, with the text submitted,
\* and answers by the outcome: VestaboardInvalidCharsError 422 (not 502),
\* VestaboardAuthError 503, any other VestaboardError 502, any other
\* exception 500, success 200.
C17_MessageStatusByOutcome ==
  text_req.endpoint = "/message" =>
    /\ text_req.pc \in {"await_send", "responded"}
    /\ db = NoQuoteCall
    /\ text_req.message = "" =>
         /\ text_req.pc = "responded"
         /\ text_req.status = 400
         /\ text_req.detail = <<"No message content provided.">>
         /\ text_req.sent = <<>>
         /\ text_req.awaited = <<>>
    /\ text_req.message # "" =>
         /\ text_req.sent = <<text_req.message>>
         /\ text_req.pc = "await_send" => text_req.status = 0 /\ text_req.awaited = <<>>
         /\ text_req.pc = "responded" =>
              /\ Len(text_req.awaited) = 1
              /\ text_req.awaited[1].call = "send_message"
              /\ text_req.status = MessageStatus(text_req.awaited[1].outcome)
    /\ text_req.status = 200 =>
         /\ text_req.awaited = <<[call |-> "send_message", outcome |-> "ok"]>>
         /\ text_req.detail = <<"Message sent successfully">>

\* a message whose characters the connector refused, answered 422
C17_Witness ==
  /\ text_req.endpoint = "/message"
  /\ text_req.pc = "responded"
  /\ text_req.sent = <<"HI">>
  /\ text_req.awaited = <<[call |-> "send_message", outcome |-> "VestaboardInvalidCharsError"]>>
  /\ text_req.status = 422

\* the status a quote endpoint owes a request whose awaits ended as in awaited
QuoteStatus(awaited) ==
  LET last == awaited[Len(awaited)]
  IN  IF last.call = "quote_func"
        THEN CASE last.outcome = None -> 404
               [] last.outcome = "ConnectionError" -> 503
               [] OTHER -> 500
        ELSE MessageStatus(last.outcome)

\* C18: GET /sfw_quote and GET /nsfw_quote answer by the outcome: a quote
\* function returning None 404 (not 500) with no send_message call;
\* ConnectionError from the lookup 503, any other exception of it 500, again
\* with no send_message call; after a quote, one send_message call with the
\* quote, answered 422 for VestaboardInvalidCharsError, 503 for
\* VestaboardAuthError, 502 for any other VestaboardError, 500 for any other
\* exception and 200 for success.
C18_QuoteStatusByOutcome ==
  text_req.endpoint \in QuoteEndpoints =>
    /\ text_req.pc = "await_quote" =>
         text_req.sent = <<>> /\ text_req.awaited = <<>> /\ text_req.status = 0
    /\ text_req.pc = "await_send" =>
         /\ text_req.awaited = <<[call |-> "quote_func", outcome |-> text_req.data]>>
         /\ text_req.data = QuoteIn(TableOf(text_req.endpoint))
         /\ text_req.sent = <<text_req.data>>
         /\ text_req.status = 0
    /\ text_req.pc = "responded" =>
         /\ Len(text_req.awaited) \in {1, 2}
         /\ text_req.awaited[1].call = "quote_func"
         /\ text_req.status = QuoteStatus(text_req.awaited)
         /\ Len(text_req.awaited) = 1 =>
              /\ text_req.sent = <<>>
              /\ text_req.awaited[1].outcome \in {None, "ConnectionError", "RuntimeError"}
              /\ text_req.status = 404 =>
                   text_req.detail = <<ErrorMessage(text_req.endpoint),
                                       ": Quote not found or DB disabled">>
         /\ Len(text_req.awaited) = 2 =>
              /\ text_req.awaited[1].outcome = text_req.data
              /\ text_req.awaited[2].call = "send_message"
              /\ text_req.sent = <<text_req.data>>
              /\ text_req.data = QuoteIn(TableOf(text_req.endpoint))
         /\ text_req.status = 200 =>
              /\ Len(text_req.awaited) = 2
              /\ text_req.awaited[2].outcome = "ok"
              /\ text_req.detail = <<SuccessMessage(text_req.endpoint)>>

\* /nsfw_quote answered 404 after a lookup that reached the database and
\* found no row
C18_Witness ==
  /\ text_req.endpoint = "/nsfw_quote"
  /\ text_req.pc = "responded"
  /\ text_req.status = 404
  /\ text_req.sent = <<>>
  /\ db.connects = 1
  /\ db.cur # None

\* a quote function as written (not one replaced by a raising one) is running
\* or has returned
LookupCalled == db.pc \notin {"idle", "raised"}

\* C19: when saying_db_enable is not "1" ("0", or any other word), the quote
\* functions return None without any attempt at a database connection:
\* _get_db_connection is not called and nothing is connected, opened or closed.
C19_DisabledDbIsNotTouched ==
  (LookupCalled /\ settings.saying_db_enable # "1") =>
    /\ db.pc = "returned"
    /\ db.result = None
    /\ db.get_conn_calls = 0
    /\ db.connects = 0
    /\ db.cnx = None /\ db.cur = None
    /\ db.cur_closes = 0 /\ db.cnx_closes = 0
    /\ db.errors = <<>>

\* the NSFW quote function has returned None under saying_db_enable = "true",
\* with every connection setting given
C19_Witness ==
  /\ settings.saying_db_enable = "true"
  /\ ConfigComplete(settings)
  /\ db.table = "nsfw_quotes"
  /\ db.pc = "returned"
  /\ db.result = None

\* the cursor of the lookup is closed exactly once if it was opened, never otherwise
CursorClosedOnce == db.cur_closes = IF db.cur # None THEN 1 ELSE 0

\* a database error of the lookup has made it return None
ErrorsGiveNone ==
  /\ db.errors # <<>> => db.result = None
  /\ db.pc = "raised" => db.errors = <<>> /\ db.get_conn_calls = 0

\* C20 as stated: on every path after a connection was obtained, the cursor
\* that was opened and the connection are each closed exactly once before the
\* function returns; a database error makes the function return None.
C20_Original ==
  /\ (db.pc = "returned" /\ db.cnx # None) =>
       /\ CursorClosedOnce
       /\ db.cnx_closes = 1
  /\ ErrorsGiveNone

\* C20, amended: on every path after a connection was obtained, the cursor
\* that was opened is closed exactly once, and the connection is closed
\* exactly once if it reports is_connected() in the finally and not at all if
\* it does not, before the function returns; neither is closed before the
\* finally or more than once; a database error at connect, cursor, execute or
\* fetch makes the function return None instead of raising.
C20_ClosedOnceIfConnected ==
  /\ (db.pc = "returned" /\ db.cnx # None) =>
       /\ CursorClosedOnce
       /\ db.is_connected \in {"True", "False"}
       /\ db.cnx_closes = IF db.is_connected = "True" THEN 1 ELSE 0
  /\ db.pc \in {"connect", "cursor", "execute", "fetch", "close_cur"} =>
       db.cur_closes = 0 /\ db.cnx_closes = 0
  /\ db.pc = "close_cnx" => CursorClosedOnce /\ db.cnx_closes = 0
  /\ db.cnx = None => db.cur = None /\ db.cur_closes = 0 /\ db.cnx_closes = 0
  /\ ErrorsGiveNone

\* a lookup whose execute raised a database error has returned None with its
\* cursor and its connection closed once each
C20_Witness ==
  /\ db.pc = "returned"
  /\ db.errors = << <<"execute", "mysql.connector.Error">> >>
  /\ db.result = None
  /\ db.cur_closes = 1
  /\ db.cnx_closes = 1

(***************************************************************************)
(* Properties of the answers to a failed start-grid send (Spec).           *)
(***************************************************************************)
\* the phrase test_main.py expects for the category of a Vestaboard error
CategoryPhrase(exc) ==
  IF IsInstance(exc, "VestaboardAuthError")
    THEN "Vestaboard authentication error."
    ELSE "Error communicating with Vestaboard."

\* the detail test_main.py expects after a failed start-grid send
SizedFailureDetail(r, exc) ==
  <<"Vestaboard error initiating Boggle ", r.size, "x", r.size, " game: ",
    CategoryPhrase(exc)>>

\* the start-grid send of a request raised a Vestaboard error
StartSendRaisedVestaboard(r) ==
  StartSendFailed(r) /\ IsInstance(r.trace[3].arg, "VestaboardError")

\* C21: when the start-grid send of a size-N request raises
\* VestaboardAuthError or another VestaboardError, the detail of the answer
\* names the size and a fixed phrase for the category ("Vestaboard error
\* initiating Boggle NxN game: Vestaboard authentication error." or
\* "... Error communicating with Vestaboard."), not the exception's message.
C21_StartFailureDetailNamesSize ==
  \A i \in Reqs :
    LET r == req[i]
    IN  StartSendRaisedVestaboard(r) =>
          /\ Len(r.detail) = 6
          /\ r.detail = SizedFailureDetail(r, r.trace[3].arg)

(***************************************************************************)
(* Further properties of generate_boggle_grids (SpecGen).                  *)
(***************************************************************************)
\* the rows of the templates of a size, in display order
TemplateRows(sz) ==
  IF sz = 4 THEN <<BEGIN_ROW_4x4>> \o MID_ROWS_TEMPLATE_4x4 \o <<END_ROW_4x4>>
  ELSE MID_ROWS_TEMPLATE_5x5 \o <<END_ROW_5x5>>

\* every cell that is not a placeholder in the template holds the template's
\* value in the grid
FixedCellsKept(grid, template) ==
  /\ Len(grid) = Len(template)
  /\ \A r \in 1..Len(template) :
       /\ Len(grid[r]) = Len(template[r])
       /\ \A c \in 1..Len(template[r]) :
            template[r][c] # LETTER_PLACEHOLDER => grid[r][c] = template[r][c]

\* C22: the start grid is assembled in fixed order.  Size 4: row 0 is the
\* begin-row template, rows 1-4 are the populated mid rows, row 5 is the
\* end-row template.  Size 5: no begin row, rows 0-4 are the populated mid
\* rows, row 5 is the end-row template.  Every cell that is not a placeholder
\* in the template holds the template's value unchanged.  (Rows are counted
\* from 1 here.)
C22_StartGridInTemplateOrder ==
  gpc \in {"assembled", "returned"} =>
    /\ Len(start_grid) = 6
    /\ size = 4 =>
         /\ start_grid[1] = BEGIN_ROW_4x4
         /\ Len(populated_mid_rows) = 4
         /\ \A k \in 1..4 : start_grid[k + 1] = populated_mid_rows[k]
         /\ start_grid[6] = END_ROW_4x4
    /\ size = 5 =>
         /\ Len(populated_mid_rows) = 5
         /\ \A k \in 1..5 : start_grid[k] = populated_mid_rows[k]
         /\ start_grid[6] = END_ROW_5x5
    /\ FixedCellsKept(start_grid, TemplateRows(size))

\* a size-4 start grid is assembled: begin row on top, letters in the rows
\* below it, end row at the bottom
C22_Witness ==
  /\ gpc = "assembled"
  /\ size = 4
  /\ start_grid[1] = BEGIN_ROW_4x4
  /\ start_grid[6] = END_ROW_4x4
  /\ \E c \in 1..DISPLAY_COLS : start_grid[2][c] \in LetterCodes

\* the 1..26 codes of the faces of a die
FaceCodes(die) == {LetterNumber(die[f]) : f \in 1..Len(die)}

\* the value of the start grid at a placeholder cell of the mid-rows template
StartGridAt(rc) == start_grid[rc[1] + GridRowOffset(BOGGLE_CONFIG[size])][rc[2]]

\* how many placeholder cells before rc hold the value rc holds
EarlierEqualCells(rc) ==
  Cardinality({other \in PlaceholderCells(BOGGLE_CONFIG[size].mid_rows) :
                 CellBefore(other, rc) /\ StartGridAt(other) = StartGridAt(rc)})

\* the throws whose number is the value at rc and that have as many throws
\* of that number before them as rc has cells holding it before it
ThrowsFor(rc) ==
  {k \in 1..Len(letter_numbers) :
     /\ letter_numbers[k] = StartGridAt(rc)
     /\ Cardinality({j \in 1..(k - 1) : letter_numbers[j] = letter_numbers[k]})
          = EarlierEqualCells(rc)}

\* f assigns the dice of a size one-to-one to the placeholder cells so that
\* each cell holds the code of a face of its die; dice are named by their
\* place in thrown, a rearrangement of the dice of the size
IsDiceAssignment(f, cells, thrown, dice) ==
  /\ Len(thrown) = Len(dice)
  /\ \A d \in Range(dice) \cup Range(thrown) : Count(thrown, d) = Count(dice, d)
  /\ DOMAIN f = cells
  /\ \A rc \in cells : f[rc] \in 1..Len(thrown)
  /\ \A a, b \in cells : f[a] = f[b] => a = b
  /\ \A k \in 1..Len(thrown) : \E rc \in cells : f[rc] = k
  /\ \A rc \in cells : StartGridAt(rc) \in FaceCodes(thrown[f[rc]])

\* C23: each die contributes exactly one face to a generated grid: there is a
\* one-to-one assignment of the dice of the size to the placeholder cells such
\* that each cell's code is the 1..26 code of one of the six faces of its die.
\* The assignment shown is the one that pairs the n-th cell holding a number
\* with the n-th throw of that number.
C23_EachDieGivesOneFace ==
  gpc \in {"assembled", "returned"} =>
    LET cells == PlaceholderCells(BOGGLE_CONFIG[size].mid_rows)
    IN  /\ \A rc \in cells : ThrowsFor(rc) # {}
        /\ IsDiceAssignment([rc \in cells |-> CHOOSE k \in ThrowsFor(rc) : TRUE],
                            cells, shuffled_dice, BOGGLE_CONFIG[size].dice)

\* a size-5 grid is returned in which some letter sits on two cells, thrown
\* by two dice
C23_Witness ==
  /\ gpc = "returned"
  /\ size = 5
  /\ \E a, b \in PlaceholderCells(MID_ROWS_TEMPLATE_5x5) :
       /\ a # b
       /\ StartGridAt(a) = StartGridAt(b)
       /\ ThrowsFor(a) # {} /\ ThrowsFor(b) # {} /\ ThrowsFor(a) # ThrowsFor(b)

(***************************************************************************)
(* Properties of the connector (SpecConn).                                 *)
(***************************************************************************)
\* the places in the traffic of the events named ev
HttpPositions(ev) == {j \in 1..Len(http) : http[j].ev = ev}

\* the calls whose GET /subscriptions is awaiting its answer
GetsInFlight == {c \in Sends : send[c].pc = "fetching"}

\* the answer at place j of the traffic gave a subscription ID
FetchSucceededAt(j) ==
  /\ http[j].ev = "GET_response"
  /\ http[j].arg.raised = None

\* C25: for any interleaving of concurrent send_array / send_message calls on
\* one connector, at most one GET /subscriptions is in flight at a time; after
\* the first successful fetch no further GET /subscriptions is issued; the
\* cached subscription ID, once set, never changes, and every POST uses it.
C25_OneFetchOneId ==
  /\ [](Cardinality(GetsInFlight) <= 1)
  /\ [](\A i, j \in 1..Len(http) :
          i < j /\ FetchSucceededAt(i) => http[j].ev # "GET")
  /\ [][connector.subscription_id # None
          => connector'.subscription_id = connector.subscription_id]_vars
  /\ [](\A j \in HttpPositions("POST") :
          http[j].arg.sub_id = connector.subscription_id)

\* a call waited for the lock while another fetched the ID; both have posted
\* with the one ID and one GET was issued
C25_Witness ==
  /\ \E c \in Sends : send[c].waited /\ send[c].pc \in {"posting", "done"}
                        /\ send[c].sub_id = connector.subscription_id
  /\ Cardinality(HttpPositions("GET")) = 1
  /\ Cardinality(HttpPositions("POST")) = 2
  /\ connector.subscription_id # None

\* the answer at place j of the traffic made the fetch fail
FetchFailedAt(j) ==
  /\ http[j].ev = "GET_response"
  /\ http[j].arg.raised # None

\* this step hears the answer to a GET and the fetch fails
FetchFails ==
  /\ Len(http') = Len(http) + 1
  /\ http'[Len(http')].ev = "GET_response"
  /\ http'[Len(http')].arg.raised # None

\* the calls queued for the lock are the calls that wait, each once
WaitersAreWaiting ==
  LET waiters == connector.sub_id_lock.waiters
  IN  /\ \A c \in Sends : send[c].pc = "waiting" <=> \E k \in 1..Len(waiters) : waiters[k] = c
      /\ \A h, k \in 1..Len(waiters) : waiters[h] = waiters[k] => h = k

\* C26: a failed subscription-ID fetch (HTTP error, network error, unparsable
\* response) leaves the cache unset and releases the lock: the failure is not
\* cached, the calls waiting for the lock are not blocked (the lock is held
\* only while a GET is in flight, and the queue holds the calls that wait),
\* and a call that goes on while nothing is cached issues a fresh GET.
C26_FailedFetchIsNotKept ==
  /\ [][FetchFails =>
          /\ connector'.subscription_id = None
          /\ ~connector'.sub_id_lock.locked
          /\ \E c \in Sends : send[c].pc = "fetching" /\ send'[c].pc = "done"
                                /\ send'[c].raised # None]_vars
  /\ [](connector.sub_id_lock.locked <=> GetsInFlight # {})
  /\ [](WaitersAreWaiting)
  /\ [](connector.subscription_id # None =>
          \E j \in 1..Len(http) :
            /\ FetchSucceededAt(j)
            /\ http[j].arg.sub_id = connector.subscription_id)
  /\ [][\A c \in Sends :
          /\ send[c].pc \in {"new", "waiting"}
          /\ send'[c].pc \in {"fetching", "posting"}
          /\ connector.subscription_id = None
          => /\ send'[c].pc = "fetching"
             /\ http' = Append(http, [call |-> c, ev |-> "GET", arg |-> "/subscriptions"])]_vars

\* the fetch of one call failed while another call waited for the lock; the
\* call that waited fetched again and the ID is cached
C26_Witness ==
  /\ \E j \in 1..Len(http) : FetchFailedAt(j)
  /\ \E c \in Sends :
       /\ send[c].waited
       /\ \E i, j \in 1..Len(http) :
            /\ i < j
            /\ FetchFailedAt(i) /\ http[i].call # c
            /\ http[j].ev = "GET" /\ http[j].call = c
       /\ send[c].sub_id # None
       /\ send[c].sub_id = connector.subscription_id

\* the places in the traffic of the events ev of call c
CallPositions(c, ev) == {j \in HttpPositions(ev) : http[j].call = c}

\* call c went on the network
UsedNetwork(c) == \E j \in 1..Len(http) : http[j].call = c

\* C27: every POST to the message endpoint is preceded, within the same send
\* call, by a successfully obtained subscription ID (the call's own fetch, or
\* the cache filled by an earlier fetch), and for send_message also by the
\* character validation; text failing the validation raises
\* VestaboardInvalidCharsError with no GET and no POST, a non-list argument of
\* send_array raises TypeError with no network call, and a failed fetch of
\* the subscription ID results in no POST.
C27_PostOnlyAfterIdAndValidation ==
  \A c \in Sends :
    LET s == send[c]
    IN  /\ \A j \in CallPositions(c, "POST") :
             /\ s.sub_id # None
             /\ http[j].arg.sub_id = s.sub_id
             /\ \E i \in 1..(j - 1) :
                  /\ FetchSucceededAt(i)
                  /\ http[i].arg.sub_id = s.sub_id
             /\ \A i \in CallPositions(c, "GET_response") : i < j /\ FetchSucceededAt(i)
             /\ s.method = "send_message" =>
                  /\ ValidChars(s.string_text)
                  /\ http[j].arg.payload.key = "text"
                  /\ http[j].arg.payload.value = s.string_text
             /\ s.method = "send_array" =>
                  /\ s.arg.t = "list"
                  /\ http[j].arg.payload.key = "characters"
        /\ Cardinality(CallPositions(c, "POST")) <= 1
        /\ s.method = "send_message" /\ ~ValidChars(s.string_text) =>
             s.pc = "done" /\ s.raised = "VestaboardInvalidCharsError" /\ ~UsedNetwork(c)
        /\ s.method = "send_array" /\ s.arg.t # "list" =>
             s.pc = "done" /\ s.raised = "TypeError" /\ ~UsedNetwork(c)
        /\ (\E j \in CallPositions(c, "GET_response") : FetchFailedAt(j)) =>
             s.pc = "done" /\ s.raised # None /\ CallPositions(c, "POST") = {}

\* one call was refused for its characters and did not go on the network;
\* another, whose text ends with a newline, passed the validation, fetched the
\* ID and posted
C27_Witness ==
  /\ \E c \in Sends : send[c].raised = "VestaboardInvalidCharsError" /\ ~UsedNetwork(c)
  /\ \E c \in Sends :
       /\ send[c].method = "send_message"
       /\ send[c].string_text = <<"H", "I", "\n">>
       /\ CallPositions(c, "GET") # {}
       /\ CallPositions(c, "POST") # {}

\* a first subscription "_id" can be taken out of a decoded body
HasFirstId(body) ==
  /\ body.t = "dict"
  /\ "subscriptions" \in DOMAIN body.v
  /\ body.v["subscriptions"].t = "list"
  /\ Len(body.v["subscriptions"].v) > 0
  /\ body.v["subscriptions"].v[1].t = "dict"
  /\ "_id" \in DOMAIN body.v["subscriptions"].v[1].v
  /\ Truthy(body.v["subscriptions"].v[1].v["_id"])

\* the answer to GET /subscriptions is a failure of the fetch
IsFetchFailure(response) ==
  \/ response.raises # None
  \/ response.status_code >= 400
  \/ response.body.t = "not json"
  \/ ~HasFirstId(response.body)

\* the class a failure of the fetch is to surface as
FetchFailureClass(response) ==
  IF response.raises # None THEN "VestaboardError"
  ELSE IF response.status_code \in {401, 403} THEN "VestaboardAuthError"
  ELSE IF response.status_code >= 400 THEN "VestaboardError"
  ELSE IF response.body.t = "not json" THEN "VestaboardError"
  ELSE "VestaboardAuthError"

\* C30: every failure of the subscription-ID fetch surfaces to callers as
\* VestaboardAuthError or VestaboardError and as no other exception type:
\* HTTP 401/403 gives VestaboardAuthError, any other HTTP error status
\* VestaboardError, a network or JSON-decoding failure VestaboardError, and a
\* successful response from which no first subscription "_id" can be
\* extracted, whatever its shape, VestaboardAuthError.
C30_FetchFailureClasses ==
  [][\A c \in Sends : \A k \in DOMAIN GetResponses :
       SubscriptionsResponse(c, k) /\ IsFetchFailure(GetResponses[k]) =>
         /\ send'[c].pc = "done"
         /\ send'[c].raised = FetchFailureClass(GetResponses[k])]_vars

(***************************************************************************)
(* Properties of games in flight together (Spec).                          *)
(***************************************************************************)
\* the start-grid send of a request succeeded
StartSendSucceeded(r) == Len(r.trace) >= 3 /\ r.trace[3].ev = "send_array_ok"

\* the places in its trace where a request called send_array for its end grid
EndSendPositions(r) == {k \in Positions(r.trace, "send_array") : k > 2}

\* the delayed send of a request is pending: scheduled and not yet attempted
EndSendPending(r) == StartSendSucceeded(r) /\ r.pc \in {"responded", "sleeping"}

\* C28: with several game-start requests in flight at once, in any
\* interleaving, each request whose start-grid send succeeded produces exactly
\* one delayed send, carrying the end grid generated by that same request; a
\* later game start neither cancels nor replaces an earlier game's pending
\* end-grid send; N successful starts yield N end-grid send attempts (at most
\* N at any time, N once every task has run).
C28_EachGameSendsItsOwnEndGrid ==
  /\ [](\A i \in Reqs :
          LET r == req[i]
          IN  /\ \A k \in EndSendPositions(r) :
                   /\ StartSendSucceeded(r)
                   /\ r.trace[k].arg = r.end_grid
                   /\ r.trace[k].arg = MakeEndGrid(r.trace[2].arg)
              /\ ~StartSendSucceeded(r) => EndSendPositions(r) = {}
              /\ EndSendPending(r) =>
                   /\ EndSendPositions(r) = {}
                   /\ r.tasks = <<[grid_to_send |-> r.end_grid]>>
              /\ StartSendSucceeded(r) /\ r.pc \in {"await_end_send", "done"} =>
                   Cardinality(EndSendPositions(r)) = 1)
  /\ [](Cardinality({i \in Reqs : EndSendPositions(req[i]) # {}})
          <= Cardinality({i \in Reqs : StartSendSucceeded(req[i])}))
  /\ []((\A i \in Reqs : req[i].pc \in {"new", "done"}) =>
          Cardinality({i \in Reqs : Cardinality(EndSendPositions(req[i])) = 1})
            = Cardinality({i \in Reqs : StartSendSucceeded(req[i])}))
  /\ [][\A i \in Reqs :
          EndSendPending(req[i]) =>
            /\ req'[i].tasks = req[i].tasks
            /\ req'[i].end_grid = req[i].end_grid
            /\ req'[i].pc \in {"responded", "sleeping", "await_end_send"}]_vars

\* two games are in flight together: the delayed sends of both are awaited at
\* once, each carries the end grid of its own game, and the two grids differ
C28_Witness ==
  \E i, j \in Reqs :
    /\ i < j
    /\ req[i].pc = "await_end_send" /\ req[j].pc = "await_end_send"
    /\ req[i].end_grid # req[j].end_grid
    /\ \A k \in EndSendPositions(req[i]) : req[i].trace[k].arg = req[i].end_grid
    /\ \A k \in EndSendPositions(req[j]) : req[j].trace[k].arg = req[j].end_grid
    /\ Cardinality(EndSendPositions(req[i])) = 1
    /\ Cardinality(EndSendPositions(req[j])) = 1

(***************************************************************************)
(* Properties of the lists generate_boggle_grids reads and makes (SpecGen). *)
(***************************************************************************)
\* the lists the module holds for its sizes
ModuleRowIds ==
  UNION {LET m == ModuleIds(BOGGLE_CONFIG[sz], sz)
         IN  {m.dice, m.begin_row, m.end_row} \cup Range(m.mid_rows)
         : sz \in DOMAIN BOGGLE_CONFIG}

\* no list occurs twice among the rows
NoRowTwice(row_ids) ==
  \A h, k \in 1..Len(row_ids) : row_ids[h] = row_ids[k] => h = k

\* the rows of the grids of the call under way and of the earlier results,
\* grid by grid
GridsHeld ==
  (IF gpc \in {"assembled", "returned"} THEN <<ids.start_grid>> ELSE <<>>)
  \o (IF gpc = "returned" THEN <<ids.end_grid>> ELSE <<>>)
  \o [k \in 1..(2 * Len(results)) |->
        IF k % 2 = 1 THEN results[(k + 1) \div 2].start_ids
        ELSE results[k \div 2].end_ids]

\* C29: after any sequence of generate_boggle_grids calls, successful or
\* failing, the module's dice sets and begin/mid/end row templates are
\* unchanged (same dice order, same placeholder count); the grids returned
\* share no row with the templates or with each other; deriving the end grid
\* leaves the start grid unchanged; a result of one call is unaffected by
\* later calls.
C29_TemplatesAndResultsUntouched ==
  /\ [](boggle_config = BOGGLE_CONFIG)
  /\ [](\A g \in 1..Len(GridsHeld) :
          /\ NoRowTwice(GridsHeld[g])
          /\ Range(GridsHeld[g]) \cap ModuleRowIds = {}
          /\ \A h \in 1..Len(GridsHeld) :
               g # h => Range(GridsHeld[g]) \cap Range(GridsHeld[h]) = {})
  /\ [](ids.shuffled_dice # <<>> => ids.shuffled_dice \notin ModuleRowIds)
  /\ [][gpc = "assembled" /\ gpc' = "returned" => start_grid' = start_grid]_vars
  /\ [][\A k \in 1..Len(results) : results'[k] = results[k]]_vars

\* a second call of the same size has returned its grids while the caller of
\* the first still holds its own: the two start grids differ and the module's
\* tables are as they were
C29_Witness ==
  /\ gpc = "returned"
  /\ Len(results) = 1
  /\ results[1].size = size
  /\ results[1].start_grid # start_grid
  /\ results[1].end_grid = MakeEndGrid(results[1].start_grid)
  /\ boggle_config = BOGGLE_CONFIG

====
